---- MODULE Spec2Model ----
(***************************************************************************)
(* Soft-delete component library of collaborationBridge.                   *)
(*                                                                         *)
(* Two packages carry their own SoftDeleteMixin and SoftDeleteManager:     *)
(* src/project_name (models/base.py, services/soft_delete_manager.py,      *)
(* utils/database_utils.py) and src/collaboration_bridge (core/mixins.py,  *)
(* services/soft_delete_manager.py).  A model class belongs to one of      *)
(* them; impl says which package the tables of a behaviour belong to.      *)
(***************************************************************************)
EXTENDS Integers, Sequences, FiniteSets, TLC

VARIABLES
    impl,            \* the package whose classes are in use
    rows,            \* the tables: entity key -> row (the four mixin columns)
    related,         \* entity key -> the instances its relationship attributes hold
    now,             \* what datetime.now() returns
    last,            \* the last call: its name, result, and what it issued
    pc,              \* "idle", or "cascade" while cascade_soft_delete runs
    stack,           \* cascade: the _process_relationships frames
    processed,       \* cascade: processed_instances
    deleted_counts,  \* cascade: deleted_counts
    sessions,        \* concurrent callers: each one's transaction and call
    soft_delete_config,  \* the global SoftDeleteConfig instance
    pytz,            \* whether `import pytz` succeeds in this installation
    onboarding       \* user -> the user's onboarding_progress row, if any

vars ==
    <<impl, rows, related, now, last, pc, stack, processed, deleted_counts,
      sessions, soft_delete_config, pytz, onboarding>>

\* What a call made alone on one session leaves untouched
elsewhere == <<sessions, soft_delete_config, pytz, onboarding>>

----------------------------------------------------------------------------
(* Bounds of the model *)

MaxTime == 2
MaxLen == 2
MaxDepth == 2
MaxHours == 2

----------------------------------------------------------------------------
(* Values *)

\* Python's None, and a value that is set
None == <<>>
Some(v) == <<v>>

\* bool(x) of an Optional[str]
Truthy(x) == x # None /\ x # Some("")

Actors == {None, Some("admin")}
Reasons == {None, Some("cleanup")}
Times == 1..MaxTime

PN == "project_name"
CB == "collaboration_bridge"

\* The tables a behaviour starts from: two books without an author, an author
\* with a book (TestAuthor.books and TestBook.author populate each other), and
\* two contacts of collaboration_bridge
Fixtures ==
    { [impl    |-> PN,
       related |-> (<<"TestBook", 1>> :> {}) @@ (<<"TestBook", 2>> :> {})],
      [impl    |-> PN,
       related |-> (<<"TestAuthor", 1>> :> {<<"TestBook", 1>>})
                   @@ (<<"TestBook", 1>> :> {<<"TestAuthor", 1>>})],
      [impl    |-> CB,
       related |-> (<<"Contact", 1>> :> {}) @@ (<<"Contact", 2>> :> {})] }

\* The model classes that have a table
Models == {e[1] : e \in DOMAIN rows}

\* The primary keys of the fixtures: 2 is the key of no author
Ids == {1, 2}
IdLists == UNION {[1..n -> Ids] : n \in 0..MaxLen}

----------------------------------------------------------------------------
(* The row: SoftDeleteMixin's columns *)

\* A row as it is created: is_deleted defaults to false, the rest to NULL
ActiveRow ==
    [exists |-> TRUE, deleted_at |-> None, deleted_by |-> None,
     deletion_reason |-> None, is_deleted |-> FALSE]

\* A row that was physically removed
NoRow ==
    [exists |-> FALSE, deleted_at |-> None, deleted_by |-> None,
     deletion_reason |-> None, is_deleted |-> FALSE]

\* is_soft_deleted as it would read if it trusted the flag alone
is_soft_deleted_FlagOnly(r) == r.is_deleted

\* SoftDeleteMixin.is_soft_deleted: Python's `a and b` yields a when a is
\* falsy, b otherwise
is_soft_deleted(r) ==
    IF r.is_deleted = FALSE THEN r.is_deleted ELSE r.deleted_at # None

\* SoftDeleteMixin.soft_delete of project_name: the guard, then the four
\* assignments.  The result is <<row, raised>>.
soft_delete_pn(r, t, by, reason) ==
    IF is_soft_deleted(r)
    THEN <<r, "ValueError">>
    ELSE <<[r EXCEPT !.deleted_at = Some(t), !.deleted_by = by,
                     !.deletion_reason = reason, !.is_deleted = TRUE], "">>

\* SoftDeleteMixin.soft_delete of collaboration_bridge: no guard
soft_delete_cb(r, t, by, reason) ==
    <<[r EXCEPT !.deleted_at = Some(t), !.deleted_by = by,
                !.deletion_reason = reason, !.is_deleted = TRUE], "">>

\* restore as it would read without `self.deleted_by = None`
restore_pn_KeepsActor(r) ==
    IF ~ is_soft_deleted(r)
    THEN <<r, "ValueError">>
    ELSE <<[r EXCEPT !.deleted_at = None, !.deletion_reason = None,
                     !.is_deleted = FALSE], "">>

\* SoftDeleteMixin.restore of project_name
restore_pn(r) ==
    IF ~ is_soft_deleted(r)
    THEN <<r, "ValueError">>
    ELSE <<[r EXCEPT !.deleted_at = None, !.deleted_by = None,
                     !.deletion_reason = None, !.is_deleted = FALSE], "">>

\* SoftDeleteMixin.restore of collaboration_bridge: no guard
restore_cb(r) ==
    <<[r EXCEPT !.deleted_at = None, !.deleted_by = None,
                !.deletion_reason = None, !.is_deleted = FALSE], "">>


----------------------------------------------------------------------------
(* SoftDeleteManager: the set-based statements *)

Min(a, b) == IF a < b THEN a ELSE b

\* ids[i:i + batch_size], as the set the IN clause sees (i counts from 0)
BatchIds(ids, i, batch_size) ==
    {ids[k] : k \in (i + 1)..Min(i + batch_size, Len(ids))}

\* The WHERE clause as it would read without the is_deleted condition
Matching_AnyState(rws, model, idset, flag) ==
    {e \in DOMAIN rws : /\ e[1] = model
                        /\ e[2] \in idset
                        /\ rws[e].exists}

\* WHERE id IN (...) AND is_deleted = <flag>, over the table of model
Matching(rws, model, idset, flag) ==
    {e \in DOMAIN rws : /\ e[1] = model
                        /\ e[2] \in idset
                        /\ rws[e].exists
                        /\ rws[e].is_deleted = flag}

\* The UPDATE as it would read without `deleted_at=datetime.now()`
UpdateDeleted_NoTimestamp(rws, hit, t, by, reason) ==
    [e \in DOMAIN rws |->
        IF e \in hit
        THEN [rws[e] EXCEPT !.deleted_by = by, !.deletion_reason = reason,
                            !.is_deleted = TRUE]
        ELSE rws[e]]

\* UPDATE ... SET deleted_at, deleted_by, deletion_reason, is_deleted
UpdateDeleted(rws, hit, t, by, reason) ==
    [e \in DOMAIN rws |->
        IF e \in hit
        THEN [rws[e] EXCEPT !.deleted_at = Some(t), !.deleted_by = by,
                            !.deletion_reason = reason, !.is_deleted = TRUE]
        ELSE rws[e]]

\* The UPDATE as it would read without `deletion_reason=None`
UpdateRestored_KeepsReason(rws, hit) ==
    [e \in DOMAIN rws |->
        IF e \in hit
        THEN [rws[e] EXCEPT !.deleted_at = None, !.deleted_by = None,
                            !.is_deleted = FALSE]
        ELSE rws[e]]

\* UPDATE ... SET deleted_at = NULL, deleted_by = NULL, deletion_reason = NULL,
\* is_deleted = false
UpdateRestored(rws, hit) ==
    [e \in DOMAIN rws |->
        IF e \in hit
        THEN [rws[e] EXCEPT !.deleted_at = None, !.deleted_by = None,
                            !.deletion_reason = None, !.is_deleted = FALSE]
        ELSE rws[e]]

\* project_name bulk_soft_delete: the loop over range(0, len(ids), batch_size),
\* one UPDATE per batch restricted to is_deleted == False
RECURSIVE bulk_soft_delete_loop(_, _, _, _, _, _, _, _)
bulk_soft_delete_loop(st, model, ids, i, batch_size, t, by, reason) ==
    IF i >= Len(ids)
    THEN st
    ELSE LET hit == Matching(st.rows, model, BatchIds(ids, i, batch_size), FALSE)
         IN bulk_soft_delete_loop(
                [rows  |-> UpdateDeleted(st.rows, hit, t, by, reason),
                 total |-> st.total + Cardinality(hit),
                 stmts |-> st.stmts + 1],
                model, ids, i + batch_size, batch_size, t, by, reason)

\* project_name bulk_restore: the same loop restricted to is_deleted == True
RECURSIVE bulk_restore_loop(_, _, _, _, _)
bulk_restore_loop(st, model, ids, i, batch_size) ==
    IF i >= Len(ids)
    THEN st
    ELSE LET hit == Matching(st.rows, model, BatchIds(ids, i, batch_size), TRUE)
         IN bulk_restore_loop(
                [rows  |-> UpdateRestored(st.rows, hit),
                 total |-> st.total + Cardinality(hit),
                 stmts |-> st.stmts + 1],
                model, ids, i + batch_size, batch_size)

\* collaboration_bridge bulk_soft_delete: update_data holds deleted_by and
\* deletion_reason only when the argument is truthy; one UPDATE
UpdateDeletedCB(rws, hit, t, by, reason) ==
    [e \in DOMAIN rws |->
        IF e \in hit
        THEN [rws[e] EXCEPT
                 !.deleted_at = Some(t),
                 !.is_deleted = TRUE,
                 !.deleted_by = IF Truthy(by) THEN by ELSE @,
                 !.deletion_reason = IF Truthy(reason) THEN reason ELSE @]
        ELSE rws[e]]

\* The SELECT as it would read with deleted_at <= timestamp
Purgeable_Inclusive(rws, model, cutoff) ==
    {e \in DOMAIN rws : /\ e[1] = model
                        /\ rws[e].exists
                        /\ rws[e].is_deleted = TRUE
                        /\ rws[e].deleted_at # None
                        /\ rws[e].deleted_at[1] <= cutoff}

\* SELECT id ... WHERE is_deleted == True AND deleted_at < timestamp: a NULL
\* deleted_at compares to nothing
Purgeable(rws, model, cutoff) ==
    {e \in DOMAIN rws : /\ e[1] = model
                        /\ rws[e].exists
                        /\ rws[e].is_deleted = TRUE
                        /\ rws[e].deleted_at # None
                        /\ rws[e].deleted_at[1] < cutoff}

\* DELETE FROM model WHERE id IN (...)
DeleteRows(rws, hit) ==
    [e \in DOMAIN rws |-> IF e \in hit THEN NoRow ELSE rws[e]]

\* project_name hard_delete_before: while True: select up to batch_size ids,
\* break when there are none, delete them by id, commit.  LIMIT without ORDER BY
\* returns any batch_size of the rows; every choice ends in the same table.
RECURSIVE hard_delete_loop(_, _, _, _)
hard_delete_loop(st, model, cutoff, batch_size) ==
    LET found == Purgeable(st.rows, model, cutoff)
    IN IF found = {}
       THEN [st EXCEPT !.stmts = @ + 1]
       ELSE LET batch == CHOOSE b \in SUBSET found :
                            Cardinality(b) = Min(batch_size, Cardinality(found))
                hit == {e \in DOMAIN st.rows :
                           e[1] = model /\ st.rows[e].exists /\ e \in batch}
            IN hard_delete_loop(
                   [rows    |-> DeleteRows(st.rows, hit),
                    total   |-> st.total + Cardinality(hit),
                    stmts   |-> st.stmts + 2,
                    commits |-> st.commits + 1],
                   model, cutoff, batch_size)

----------------------------------------------------------------------------
(* SoftDeleteConfig: the fields that validate_operation and the two           *)
(* validators read                                                            *)

ConfigFields ==
    {"cleanup_schedule_hours", "timezone", "skip_validation",
     "require_deleted_by", "require_deletion_reason"}

\* The Field defaults
DefaultConfig ==
    [cleanup_schedule_hours |-> <<2>>, timezone |-> "UTC",
     skip_validation |-> FALSE, require_deleted_by |-> TRUE,
     require_deletion_reason |-> FALSE]

\* Keyword arguments: a field that is not passed is None
NoKwargs == [f \in ConfigFields |-> None]

\* The names pytz.timezone accepts, and one it does not
PytzTimezones == {"UTC", "Europe/Paris"}
Timezones == PytzTimezones \cup {"Invalid/Timezone"}

Hours == {-1, 0, 23, 24}
HourLists == UNION {[1..n -> Hours] : n \in 0..MaxHours}

\* validate_cleanup_hours as it would read with `0 <= hour <= 24`
validate_cleanup_hours_UpTo24(v) ==
    IF \A k \in 1..Len(v) : 0 <= v[k] /\ v[k] <= 24 THEN "" ELSE "ValueError"

\* @validator("cleanup_schedule_hours"): what it raises, "" when it returns v
validate_cleanup_hours(v) ==
    IF \A k \in 1..Len(v) : 0 <= v[k] /\ v[k] <= 23 THEN "" ELSE "ValueError"

\* @validator("timezone"): `import pytz; pytz.timezone(v)` under `except
\* Exception`, so a missing pytz rejects every name
validate_timezone(v, installed) ==
    IF installed /\ v \in PytzTimezones THEN "" ELSE "ValueError"

\* SoftDeleteConfig(**kw): a passed field is validated, a field that is not
\* passed takes its default unvalidated.  The object and what was raised.
NewSoftDeleteConfig(kw, installed) ==
    LET bad == \/ /\ kw.cleanup_schedule_hours # None
                  /\ validate_cleanup_hours(kw.cleanup_schedule_hours[1]) # ""
               \/ /\ kw.timezone # None
                  /\ validate_timezone(kw.timezone[1], installed) # ""
    IN IF bad
       THEN [obj |-> None, raised |-> "ValidationError"]
       ELSE [obj |-> Some([f \in ConfigFields |->
                              IF kw[f] = None THEN DefaultConfig[f]
                              ELSE kw[f][1]]),
             raised |-> ""]

\* validate_operation as it would read without `if self.skip_validation`
validate_operation_NoSkip(config, deleted_by, reason) ==
    IF config.require_deleted_by /\ ~ Truthy(deleted_by)
    THEN "ValueError"
    ELSE IF config.require_deletion_reason /\ ~ Truthy(reason)
    THEN "ValueError"
    ELSE ""

\* SoftDeleteConfig.validate_operation: what it raises, "" when it returns
validate_operation(config, deleted_by, reason) ==
    IF config.skip_validation
    THEN ""
    ELSE IF config.require_deleted_by /\ ~ Truthy(deleted_by)
    THEN "ValueError"
    ELSE IF config.require_deletion_reason /\ ~ Truthy(reason)
    THEN "ValueError"
    ELSE ""

----------------------------------------------------------------------------
(* DatabaseHealthChecker.  What the database answers during a call is an      *)
(* input of the call: the outcome of SELECT 1 with the measured time in       *)
(* milliseconds, and per table the three counts or a failing query.           *)

Latencies == {0, 99, 100, 101}
ConnectionErrors == {"Connection failed"}

Outcomes ==
    {[ok |-> TRUE, ms |-> l, error |-> ""] : l \in Latencies}
    \cup {[ok |-> FALSE, ms |-> 0, error |-> e] : e \in ConnectionErrors}

\* check_connection as it would read with `response_time <= 100`
check_connection_Inclusive(outcome) ==
    IF outcome.ok
    THEN [connected |-> TRUE, response_time_ms |-> outcome.ms,
          status |-> IF outcome.ms <= 100 THEN "healthy" ELSE "slow",
          error |-> ""]
    ELSE [connected |-> FALSE, response_time_ms |-> 0,
          status |-> "unhealthy", error |-> outcome.error]

\* check_connection: the dictionary it returns ("" and 0 stand for a key that
\* is absent); the except clause turns a failing query into a result
check_connection(outcome) ==
    IF outcome.ok
    THEN [connected |-> TRUE, response_time_ms |-> outcome.ms,
          status |-> IF outcome.ms < 100 THEN "healthy" ELSE "slow",
          error |-> ""]
    ELSE [connected |-> FALSE, response_time_ms |-> 0,
          status |-> "unhealthy", error |-> outcome.error]

\* issubclass(model_class, SoftDeleteMixin): every model of the fixtures has the
\* mixin; RapportTactic(Base, TimestampMixin) has not, and so has none of its
\* attributes (get_active_filter, get_deleted_filter, deleted_at)
SupportsSoftDelete(model) == model # "RapportTactic"

\* The counts of a table: active, deleted, and deleted more than 90 days ago;
\* failed when the counting queries raise
TableStates ==
    {[failed |-> FALSE, active |-> a, deleted |-> d[1], old |-> d[2]] :
        a \in {0, 1, 10001},
        d \in {<<0, 0>>, <<1, 0>>, <<1, 1>>, <<10001, 0>>, <<10001, 10000>>,
               <<10001, 10001>>}}
    \cup {[failed |-> TRUE, active |-> 0, deleted |-> 0, old |-> 0]}

\* _assess_table_health as it would read without the old_deleted_count > 10000
\* branch
assess_table_health_RatioOnly(deleted, total, old_deleted_count) ==
    LET above(p) == total > 0 /\ deleted * 100 > p * total
    IN IF above(50) THEN "poor - high deletion ratio"
       ELSE IF above(25) \/ old_deleted_count > 1000
       THEN "fair - cleanup recommended"
       ELSE "good"

\* _assess_table_health(deletion_ratio, old_deleted_count), with
\* deletion_ratio = deleted / total * 100 when total > 0 and 0 otherwise
\* compared exactly
assess_table_health(deleted, total, old_deleted_count) ==
    LET above(p) == total > 0 /\ deleted * 100 > p * total
    IN IF above(50) THEN "poor - high deletion ratio"
       ELSE IF old_deleted_count > 10000
       THEN "poor - too many old deleted records"
       ELSE IF above(25) \/ old_deleted_count > 1000
       THEN "fair - cleanup recommended"
       ELSE "good"

\* get_table_statistics: the fields get_health_report reads
get_table_statistics(model, t) ==
    IF t.failed
    THEN [table |-> model, health_status |-> "unknown",
          cleanup_recommended |-> FALSE]
    ELSE [table |-> model,
          health_status |-> assess_table_health(t.deleted,
                                                t.active + t.deleted, t.old),
          cleanup_recommended |-> t.old > 1000]

\* health_status.startswith("poor")
StartsWithPoor(status) ==
    status \in {"poor - high deletion ratio",
                "poor - too many old deleted records"}

\* The loop of get_health_report over model_classes from position k on
RECURSIVE health_report_loop(_, _, _, _)
health_report_loop(report, model_classes, k, tables) ==
    IF k > Len(model_classes)
    THEN report
    ELSE IF ~ SupportsSoftDelete(model_classes[k])
    THEN health_report_loop(report, model_classes, k + 1, tables)
    ELSE LET table_stats ==
                 get_table_statistics(model_classes[k],
                                      tables[model_classes[k]])
         IN health_report_loop(
                [report EXCEPT
                    !.tables = Append(@, table_stats),
                    !.recommendations =
                        IF table_stats.cleanup_recommended
                        THEN Append(@, model_classes[k]) ELSE @,
                    !.healthy =
                        IF StartsWithPoor(table_stats.health_status)
                        THEN FALSE ELSE @],
                model_classes, k + 1, tables)

\* get_health_report(model_classes); None and [] take the same path.  The
\* index recommendations, which do not touch the healthy flag, are left out.
get_health_report(outcome, model_classes, tables) ==
    LET connection_status == check_connection(outcome)
        report == [overall_health |-> "unknown",
                   connection |-> connection_status, tables |-> <<>>,
                   recommendations |-> <<>>, healthy |-> TRUE]
    IN IF ~ connection_status.connected
       THEN [report EXCEPT !.healthy = FALSE,
                           !.overall_health = "unhealthy - no connection"]
       ELSE LET checked == health_report_loop(report, model_classes, 1, tables)
            IN [checked EXCEPT
                   !.overall_health =
                       IF checked.healthy
                       THEN IF connection_status.status = "slow"
                            THEN "fair - slow connection" ELSE "good"
                       ELSE "poor - issues detected"]

----------------------------------------------------------------------------
(* What a call leaves behind *)

\* deleted_counts = {}: a class name without an entry counts as 0
NoCounts == [m \in {"TestAuthor", "TestBook", "TestUser", "Contact"} |-> 0]

\* A call and its outcome, as the caller holds them when the call returns.
\* op: the method; inst .. max_depth: its arguments (those it does not take keep
\* the values below); ret: the int it returned; flag: the bool it returned;
\* counts: the dict it returned; raised: the exception it raised; stmts, commits:
\* the statements and commits it issued on the session
NoCall ==
    [op |-> "", inst |-> <<>>, model |-> "", ids |-> <<>>, by |-> None,
     reason |-> None, batch_size |-> 0, cutoff |-> 0, commit |-> FALSE,
     max_depth |-> 0, ret |-> 0, flag |-> FALSE, counts |-> NoCounts,
     raised |-> "", stmts |-> 0, commits |-> 0,
     kind |-> "", kwargs |-> <<>>, obj |-> None,
     classes |-> <<>>, env |-> <<>>]

Init ==
    /\ \E f \in Fixtures :
          /\ impl = f.impl
          /\ related = f.related
          /\ rows = [e \in DOMAIN f.related |-> ActiveRow]
    /\ now = 1
    /\ last = NoCall
    /\ pc = "idle"
    /\ stack = <<>>
    /\ processed = {}
    /\ deleted_counts = NoCounts
    /\ sessions = <<>>
    /\ soft_delete_config = DefaultConfig
    /\ pytz = TRUE
    /\ onboarding = <<>>

cascadeVars == <<pc, stack, processed, deleted_counts>>

\* The caller drops the result of the call that returned
Forget ==
    /\ pc = "returned"
    /\ pc' = "idle"
    /\ last' = NoCall
    /\ UNCHANGED <<impl, rows, related, now, stack, processed, deleted_counts>>
    /\ UNCHANGED elsewhere

\* Time passes
Tick ==
    /\ pc = "idle"
    /\ now < MaxTime
    /\ now' = now + 1
    /\ UNCHANGED <<impl, related, rows, last, cascadeVars>>
    /\ UNCHANGED elsewhere

\* instance.soft_delete(deleted_by, reason) on a loaded instance
SoftDelete(e, by, reason) ==
    /\ pc = "idle"
    /\ rows[e].exists
    /\ LET res == IF impl = PN THEN soft_delete_pn(rows[e], now, by, reason)
                  ELSE soft_delete_cb(rows[e], now, by, reason)
       IN /\ rows' = [rows EXCEPT ![e] = res[1]]
          /\ last' = [NoCall EXCEPT !.op = "soft_delete", !.inst = e, !.by = by,
                                    !.reason = reason, !.raised = res[2]]
    /\ pc' = "returned"
    /\ UNCHANGED <<impl, related, now, stack, processed, deleted_counts>>
    /\ UNCHANGED elsewhere

\* instance.restore() on a loaded instance
Restore(e) ==
    /\ pc = "idle"
    /\ rows[e].exists
    /\ LET res == IF impl = PN THEN restore_pn(rows[e]) ELSE restore_cb(rows[e])
       IN /\ rows' = [rows EXCEPT ![e] = res[1]]
          /\ last' = [NoCall EXCEPT !.op = "restore", !.inst = e,
                                    !.raised = res[2]]
    /\ pc' = "returned"
    /\ UNCHANGED <<impl, related, now, stack, processed, deleted_counts>>
    /\ UNCHANGED elsewhere


\* SoftDeleteManager.bulk_soft_delete of project_name
BulkSoftDeletePN(model, ids, by, reason, batch_size) ==
    /\ pc = "idle"
    /\ impl = PN
    /\ IF ~ SupportsSoftDelete(model)
       THEN /\ rows' = rows
            /\ last' = [NoCall EXCEPT
                           !.op = "bulk_soft_delete", !.model = model,
                           !.ids = ids, !.by = by, !.reason = reason,
                           !.batch_size = batch_size, !.raised = "ValueError"]
       ELSE IF ids = <<>>
       THEN /\ rows' = rows
            /\ last' = [NoCall EXCEPT
                           !.op = "bulk_soft_delete", !.model = model,
                           !.ids = ids, !.by = by, !.reason = reason,
                           !.batch_size = batch_size]
       ELSE LET st == bulk_soft_delete_loop(
                          [rows |-> rows, total |-> 0, stmts |-> 0],
                          model, ids, 0, batch_size, now, by, reason)
            IN /\ rows' = st.rows
               /\ last' = [NoCall EXCEPT
                              !.op = "bulk_soft_delete", !.model = model,
                              !.ids = ids, !.by = by, !.reason = reason,
                              !.batch_size = batch_size, !.ret = st.total,
                              !.stmts = st.stmts, !.commits = 1]
    /\ pc' = "returned"
    /\ UNCHANGED <<impl, related, now, stack, processed, deleted_counts>>
    /\ UNCHANGED elsewhere

\* get_deletion_stats as it would read with total counted as the active rows
get_deletion_stats_TotalIsActive(rws, model) ==
    LET counted(flag) ==
            Cardinality({e \in DOMAIN rws : /\ e[1] = model
                                            /\ rws[e].exists
                                            /\ rws[e].is_deleted = flag})
    IN [active |-> counted(FALSE), deleted |-> counted(TRUE),
        total |-> counted(FALSE)]

\* The dictionary of get_deletion_stats: the rows with is_deleted == False, the
\* rows with is_deleted == True, and their sum
get_deletion_stats(rws, model) ==
    LET counted(flag) ==
            Cardinality({e \in DOMAIN rws : /\ e[1] = model
                                            /\ rws[e].exists
                                            /\ rws[e].is_deleted = flag})
    IN [active |-> counted(FALSE), deleted |-> counted(TRUE),
        total |-> counted(FALSE) + counted(TRUE)]

\* SoftDeleteManager.get_deletion_stats of project_name
GetDeletionStats(model) ==
    /\ pc = "idle"
    /\ impl = PN
    /\ last' = IF ~ SupportsSoftDelete(model)
               THEN [NoCall EXCEPT !.op = "get_deletion_stats",
                                   !.model = model, !.raised = "ValueError"]
               ELSE [NoCall EXCEPT
                        !.op = "get_deletion_stats", !.model = model,
                        !.stmts = 2,
                        !.obj = Some(get_deletion_stats(rows, model))]
    /\ pc' = "returned"
    /\ UNCHANGED <<impl, rows, related, now, stack, processed, deleted_counts>>
    /\ UNCHANGED elsewhere

\* SoftDeleteManager.bulk_soft_delete of collaboration_bridge
BulkSoftDeleteCB(model, ids, by, reason, commit) ==
    /\ pc = "idle"
    /\ impl = CB
    /\ IF ids = <<>>
       THEN /\ rows' = rows
            /\ last' = [NoCall EXCEPT
                           !.op = "bulk_soft_delete", !.model = model,
                           !.ids = ids, !.by = by, !.reason = reason,
                           !.commit = commit]
       ELSE IF ~ SupportsSoftDelete(model)
       THEN /\ rows' = rows
            /\ last' = [NoCall EXCEPT
                           !.op = "bulk_soft_delete", !.model = model,
                           !.ids = ids, !.by = by, !.reason = reason,
                           !.commit = commit, !.raised = "AttributeError"]
       ELSE LET hit == Matching(rows, model, BatchIds(ids, 0, Len(ids)), FALSE)
            IN /\ rows' = UpdateDeletedCB(rows, hit, now, by, reason)
               /\ last' = [NoCall EXCEPT
                              !.op = "bulk_soft_delete", !.model = model,
                              !.ids = ids, !.by = by, !.reason = reason,
                              !.commit = commit, !.ret = Cardinality(hit),
                              !.stmts = 1,
                              !.commits = IF commit THEN 1 ELSE 0]
    /\ pc' = "returned"
    /\ UNCHANGED <<impl, related, now, stack, processed, deleted_counts>>
    /\ UNCHANGED elsewhere

\* bulk_restore as it would read without `if not ids: return 0`
BulkRestorePN_NoEarlyReturn(model, ids, batch_size) ==
    /\ pc = "idle"
    /\ impl = PN
    /\ SupportsSoftDelete(model)
    /\ LET st == bulk_restore_loop(
                     [rows |-> rows, total |-> 0, stmts |-> 0],
                     model, ids, 0, batch_size)
       IN /\ rows' = st.rows
          /\ last' = [NoCall EXCEPT
                         !.op = "bulk_restore", !.model = model,
                         !.ids = ids, !.batch_size = batch_size,
                         !.ret = st.total, !.stmts = st.stmts,
                         !.commits = 1]
    /\ pc' = "returned"
    /\ UNCHANGED <<impl, related, now, stack, processed, deleted_counts>>
    /\ UNCHANGED elsewhere

\* SoftDeleteManager.bulk_restore of project_name
BulkRestorePN(model, ids, batch_size) ==
    /\ pc = "idle"
    /\ impl = PN
    /\ IF ~ SupportsSoftDelete(model)
       THEN /\ rows' = rows
            /\ last' = [NoCall EXCEPT
                           !.op = "bulk_restore", !.model = model, !.ids = ids,
                           !.batch_size = batch_size, !.raised = "ValueError"]
       ELSE IF ids = <<>>
       THEN /\ rows' = rows
            /\ last' = [NoCall EXCEPT
                           !.op = "bulk_restore", !.model = model, !.ids = ids,
                           !.batch_size = batch_size]
       ELSE LET st == bulk_restore_loop(
                          [rows |-> rows, total |-> 0, stmts |-> 0],
                          model, ids, 0, batch_size)
            IN /\ rows' = st.rows
               /\ last' = [NoCall EXCEPT
                              !.op = "bulk_restore", !.model = model,
                              !.ids = ids, !.batch_size = batch_size,
                              !.ret = st.total, !.stmts = st.stmts,
                              !.commits = 1]
    /\ pc' = "returned"
    /\ UNCHANGED <<impl, related, now, stack, processed, deleted_counts>>
    /\ UNCHANGED elsewhere

\* SoftDeleteManager.bulk_restore of collaboration_bridge
BulkRestoreCB(model, ids, commit) ==
    /\ pc = "idle"
    /\ impl = CB
    /\ IF ids = <<>>
       THEN /\ rows' = rows
            /\ last' = [NoCall EXCEPT
                           !.op = "bulk_restore", !.model = model, !.ids = ids,
                           !.commit = commit]
       ELSE IF ~ SupportsSoftDelete(model)
       THEN /\ rows' = rows
            /\ last' = [NoCall EXCEPT
                           !.op = "bulk_restore", !.model = model, !.ids = ids,
                           !.commit = commit, !.raised = "AttributeError"]
       ELSE LET hit == Matching(rows, model, BatchIds(ids, 0, Len(ids)), TRUE)
            IN /\ rows' = UpdateRestored(rows, hit)
               /\ last' = [NoCall EXCEPT
                              !.op = "bulk_restore", !.model = model,
                              !.ids = ids, !.commit = commit,
                              !.ret = Cardinality(hit), !.stmts = 1,
                              !.commits = IF commit THEN 1 ELSE 0]
    /\ pc' = "returned"
    /\ UNCHANGED <<impl, related, now, stack, processed, deleted_counts>>
    /\ UNCHANGED elsewhere

\* SoftDeleteManager.hard_delete_before of project_name
HardDeleteBeforePN(model, cutoff, batch_size) ==
    /\ pc = "idle"
    /\ impl = PN
    /\ IF ~ SupportsSoftDelete(model)
       THEN /\ rows' = rows
            /\ last' = [NoCall EXCEPT
                           !.op = "hard_delete_before", !.model = model,
                           !.cutoff = cutoff, !.batch_size = batch_size,
                           !.raised = "ValueError"]
       ELSE LET st == hard_delete_loop(
                          [rows |-> rows, total |-> 0, stmts |-> 0,
                           commits |-> 0],
                          model, cutoff, batch_size)
            IN /\ rows' = st.rows
               /\ last' = [NoCall EXCEPT
                              !.op = "hard_delete_before", !.model = model,
                              !.cutoff = cutoff, !.batch_size = batch_size,
                              !.ret = st.total, !.stmts = st.stmts,
                              !.commits = st.commits]
    /\ pc' = "returned"
    /\ UNCHANGED <<impl, related, now, stack, processed, deleted_counts>>
    /\ UNCHANGED elsewhere

\* SoftDeleteManager.hard_delete_before of collaboration_bridge: one DELETE
\* WHERE is_deleted IS true AND deleted_at < before_date
HardDeleteBeforeCB(model, cutoff, commit) ==
    /\ pc = "idle"
    /\ impl = CB
    /\ IF ~ SupportsSoftDelete(model)
       THEN /\ rows' = rows
            /\ last' = [NoCall EXCEPT
                           !.op = "hard_delete_before", !.model = model,
                           !.cutoff = cutoff, !.commit = commit,
                           !.raised = "AttributeError"]
       ELSE LET hit == Purgeable(rows, model, cutoff)
            IN /\ rows' = DeleteRows(rows, hit)
               /\ last' = [NoCall EXCEPT
                              !.op = "hard_delete_before", !.model = model,
                              !.cutoff = cutoff, !.commit = commit,
                              !.ret = Cardinality(hit), !.stmts = 1,
                              !.commits = IF commit THEN 1 ELSE 0]
    /\ pc' = "returned"
    /\ UNCHANGED <<impl, related, now, stack, processed, deleted_counts>>
    /\ UNCHANGED elsewhere

----------------------------------------------------------------------------
(* CascadingSoftDeleteManager *)

\* _cascade_delete_recursive as it would read with the count outside the
\* `if not instance.is_soft_deleted` block
Visit_CountsAlways(st, inst, t, by, reason, remaining) ==
    IF inst \in st.processed
    THEN st
    ELSE LET r == st.rows[inst]
             del == ~ is_soft_deleted(r)
         IN [rows      |-> IF del
                           THEN [st.rows EXCEPT
                                    ![inst] = soft_delete_pn(r, t, by, reason)[1]]
                           ELSE st.rows,
             processed |-> st.processed \cup {inst},
             counts    |-> [st.counts EXCEPT ![inst[1]] = @ + 1],
             stack     |-> IF remaining > 0
                           THEN Append(st.stack,
                                       [inst      |-> inst,
                                        remaining |-> remaining - 1,
                                        todo      |-> {x \in related[inst] :
                                                          st.rows[x].exists},
                                        by        |-> by,
                                        reason    |-> reason])
                           ELSE st.stack]

\* _cascade_delete_recursive as it would read without `if not
\* instance.is_soft_deleted` around the write (the columns assigned directly)
Visit_Overwrites(st, inst, t, by, reason, remaining) ==
    IF inst \in st.processed
    THEN st
    ELSE LET r == st.rows[inst]
         IN [rows      |-> [st.rows EXCEPT
                               ![inst] = soft_delete_cb(r, t, by, reason)[1]],
             processed |-> st.processed \cup {inst},
             counts    |-> [st.counts EXCEPT ![inst[1]] = @ + 1],
             stack     |-> IF remaining > 0
                           THEN Append(st.stack,
                                       [inst      |-> inst,
                                        remaining |-> remaining - 1,
                                        todo      |-> {x \in related[inst] :
                                                          st.rows[x].exists},
                                        by        |-> by,
                                        reason    |-> reason])
                           ELSE st.stack]

\* _cascade_delete_recursive as it would read without processed_instances.add
Visit_NoProcessedAdd(st, inst, t, by, reason, remaining) ==
    IF inst \in st.processed
    THEN st
    ELSE LET r == st.rows[inst]
             del == ~ is_soft_deleted(r)
         IN [rows      |-> IF del
                           THEN [st.rows EXCEPT
                                    ![inst] = soft_delete_pn(r, t, by, reason)[1]]
                           ELSE st.rows,
             processed |-> st.processed,
             counts    |-> IF del
                           THEN [st.counts EXCEPT ![inst[1]] = @ + 1]
                           ELSE st.counts,
             stack     |-> IF remaining > 0
                           THEN Append(st.stack,
                                       [inst      |-> inst,
                                        remaining |-> remaining - 1,
                                        todo      |-> {x \in related[inst] :
                                                          st.rows[x].exists},
                                        by        |-> by,
                                        reason    |-> reason])
                           ELSE st.stack]

\* _cascade_delete_recursive(instance, deleted_by, reason, remaining_depth, ...)
\* up to its call of _process_relationships, which becomes a frame of the stack:
\* the early return on a processed key, processed_instances.add, the guarded
\* soft_delete with its count, and the descent when remaining_depth > 0.
\* st holds rows, processed, counts and stack.
Visit(st, inst, t, by, reason, remaining) ==
    IF inst \in st.processed
    THEN st
    ELSE LET r == st.rows[inst]
             del == ~ is_soft_deleted(r)
         IN [rows      |-> IF del
                           THEN [st.rows EXCEPT
                                    ![inst] = soft_delete_pn(r, t, by, reason)[1]]
                           ELSE st.rows,
             processed |-> st.processed \cup {inst},
             counts    |-> IF del
                           THEN [st.counts EXCEPT ![inst[1]] = @ + 1]
                           ELSE st.counts,
             stack     |-> IF remaining > 0
                           THEN Append(st.stack,
                                       [inst      |-> inst,
                                        remaining |-> remaining - 1,
                                        todo      |-> {x \in related[inst] :
                                                          st.rows[x].exists},
                                        by        |-> by,
                                        reason    |-> reason])
                           ELSE st.stack]

\* _process_relationships: whether a related instance is handed to
\* _cascade_delete_recursive (hasattr(related, 'soft_delete') holds of every
\* BaseModel)
CascadesInto(rws, x) == ~ is_soft_deleted(rws[x])

\* cascade_soft_delete as it would read with `if max_depth < 0`
CascadeSoftDelete_NegativeOnly(inst, by, reason, max_depth) ==
    /\ pc = "idle"
    /\ impl = PN
    /\ rows[inst].exists
    /\ IF max_depth < 0
       THEN /\ last' = [NoCall EXCEPT
                           !.op = "cascade_soft_delete", !.inst = inst,
                           !.by = by, !.reason = reason,
                           !.max_depth = max_depth, !.raised = "ValueError"]
            /\ pc' = "returned"
            /\ UNCHANGED <<rows, stack, processed, deleted_counts>>
       ELSE LET st == Visit([rows |-> rows, processed |-> {},
                             counts |-> NoCounts, stack |-> <<>>],
                            inst, now, by, reason, max_depth)
            IN /\ rows' = st.rows
               /\ processed' = st.processed
               /\ deleted_counts' = st.counts
               /\ stack' = st.stack
               /\ pc' = "cascade"
               /\ last' = [NoCall EXCEPT
                              !.op = "cascade_soft_delete", !.inst = inst,
                              !.by = by, !.reason = reason,
                              !.max_depth = max_depth]
    /\ UNCHANGED <<impl, related, now>>
    /\ UNCHANGED elsewhere

\* cascade_soft_delete(instance, deleted_by, reason, max_depth): the depth
\* check, then the walk starts at the instance
CascadeSoftDelete(inst, by, reason, max_depth) ==
    /\ pc = "idle"
    /\ impl = PN
    /\ rows[inst].exists
    /\ IF max_depth <= 0
       THEN /\ last' = [NoCall EXCEPT
                           !.op = "cascade_soft_delete", !.inst = inst,
                           !.by = by, !.reason = reason,
                           !.max_depth = max_depth, !.raised = "ValueError"]
            /\ pc' = "returned"
            /\ UNCHANGED <<rows, stack, processed, deleted_counts>>
       ELSE LET st == Visit([rows |-> rows, processed |-> {},
                             counts |-> NoCounts, stack |-> <<>>],
                            inst, now, by, reason, max_depth)
            IN /\ rows' = st.rows
               /\ processed' = st.processed
               /\ deleted_counts' = st.counts
               /\ stack' = st.stack
               /\ pc' = "cascade"
               /\ last' = [NoCall EXCEPT
                              !.op = "cascade_soft_delete", !.inst = inst,
                              !.by = by, !.reason = reason,
                              !.max_depth = max_depth]
    /\ UNCHANGED <<impl, related, now>>
    /\ UNCHANGED elsewhere

\* One turn of the loops of the innermost _process_relationships: the next
\* related instance (a collection is walked in the order the database loaded
\* it), or the return when there is none left
CascadeStep ==
    /\ pc = "cascade"
    /\ stack # <<>>
    /\ LET top == stack[Len(stack)]
           rest == SubSeq(stack, 1, Len(stack) - 1)
       IN IF top.todo = {}
          THEN /\ stack' = rest
               /\ UNCHANGED <<rows, processed, deleted_counts>>
          ELSE \E x \in top.todo :
                  LET left == Append(rest, [top EXCEPT !.todo = @ \ {x}])
                      st == IF CascadesInto(rows, x)
                            THEN Visit([rows |-> rows, processed |-> processed,
                                        counts |-> deleted_counts,
                                        stack |-> left],
                                       x, now, top.by, top.reason, top.remaining)
                            ELSE [rows |-> rows, processed |-> processed,
                                  counts |-> deleted_counts, stack |-> left]
                  IN /\ rows' = st.rows
                     /\ processed' = st.processed
                     /\ deleted_counts' = st.counts
                     /\ stack' = st.stack
    /\ UNCHANGED <<impl, related, now, last, pc>>
    /\ UNCHANGED elsewhere

\* cascade_soft_delete after the walk: commit, return deleted_counts
CascadeReturn ==
    /\ pc = "cascade"
    /\ stack = <<>>
    /\ pc' = "returned"
    /\ last' = [last EXCEPT !.counts = deleted_counts, !.commits = 1]
    /\ processed' = {}
    /\ deleted_counts' = NoCounts
    /\ UNCHANGED <<impl, rows, related, now, stack>>
    /\ UNCHANGED elsewhere

\* a batch_size above len(ids) makes the one batch that len(ids) makes
BatchSizes == 1..MaxLen
Depths == (-1)..MaxDepth
Cutoffs == 1..(MaxTime + 1)

Next ==
    \/ Tick
    \/ Forget
    \/ \E e \in DOMAIN rows, by \in Actors, reason \in Reasons :
          SoftDelete(e, by, reason)
    \/ \E e \in DOMAIN rows : Restore(e)
    \/ \E model \in Models, ids \in IdLists, by \in Actors,
          reason \in Reasons, batch_size \in BatchSizes :
          BulkSoftDeletePN(model, ids, by, reason, batch_size)
    \/ \E model \in Models, ids \in IdLists, by \in Actors,
          reason \in Reasons, commit \in BOOLEAN :
          BulkSoftDeleteCB(model, ids, by, reason, commit)
    \/ \E model \in Models, ids \in IdLists, batch_size \in BatchSizes :
          BulkRestorePN(model, ids, batch_size)
    \/ \E model \in Models, ids \in IdLists, commit \in BOOLEAN :
          BulkRestoreCB(model, ids, commit)
    \/ \E model \in Models, cutoff \in Cutoffs, batch_size \in BatchSizes :
          HardDeleteBeforePN(model, cutoff, batch_size)
    \/ \E model \in Models, cutoff \in Cutoffs, commit \in BOOLEAN :
          HardDeleteBeforeCB(model, cutoff, commit)
    \/ \E inst \in DOMAIN rows, by \in Actors, reason \in Reasons,
          max_depth \in Depths :
          CascadeSoftDelete(inst, by, reason, max_depth)
    \/ CascadeStep
    \/ CascadeReturn

Spec == Init /\ [][Next]_vars

----------------------------------------------------------------------------
(* The mixin on one instance in memory, as the unit tests drive it: calls     *)
(* follow one another while the caller still holds the last result, and the   *)
(* columns are plain attributes that can be assigned.                         *)

InitMixin ==
    /\ impl \in {PN, CB}
    /\ related = (<<"TestUser", 1>> :> {})
    /\ rows = (<<"TestUser", 1>> :> ActiveRow)
    /\ now = 1
    /\ last = NoCall
    /\ pc = "idle"
    /\ stack = <<>>
    /\ processed = {}
    /\ deleted_counts = NoCounts
    /\ sessions = <<>>
    /\ soft_delete_config = DefaultConfig
    /\ pytz = TRUE
    /\ onboarding = <<>>

\* The caller goes on, keeping the result of the call that returned
Resume ==
    /\ pc = "returned"
    /\ pc' = "idle"
    /\ UNCHANGED <<impl, rows, related, now, last, stack, processed,
                   deleted_counts>>
    /\ UNCHANGED elsewhere

\* user.is_deleted = value
SetIsDeleted(e, value) ==
    /\ pc = "idle"
    /\ rows' = [rows EXCEPT ![e].is_deleted = value]
    /\ last' = [NoCall EXCEPT !.op = "set is_deleted", !.inst = e]
    /\ UNCHANGED <<impl, related, now, cascadeVars>>
    /\ UNCHANGED elsewhere

\* user.deleted_at = value
SetDeletedAt(e, value) ==
    /\ pc = "idle"
    /\ rows' = [rows EXCEPT ![e].deleted_at = value]
    /\ last' = [NoCall EXCEPT !.op = "set deleted_at", !.inst = e]
    /\ UNCHANGED <<impl, related, now, cascadeVars>>
    /\ UNCHANGED elsewhere

\* user.is_soft_deleted
ReadIsSoftDeleted(e) ==
    /\ pc = "idle"
    /\ last' = [NoCall EXCEPT !.op = "is_soft_deleted", !.inst = e,
                              !.flag = is_soft_deleted(rows[e])]
    /\ UNCHANGED <<impl, rows, related, now, cascadeVars>>
    /\ UNCHANGED elsewhere

NextMixin ==
    \/ Tick
    \/ Resume
    \/ \E e \in DOMAIN rows, by \in Actors, reason \in Reasons :
          SoftDelete(e, by, reason)
    \/ \E e \in DOMAIN rows : Restore(e)
    \/ \E e \in DOMAIN rows, value \in BOOLEAN : SetIsDeleted(e, value)
    \/ \E e \in DOMAIN rows, value \in {None} \cup {Some(t) : t \in Times} :
          SetDeletedAt(e, value)
    \/ \E e \in DOMAIN rows : ReadIsSoftDeleted(e)

SpecMixin == InitMixin /\ [][NextMixin]_vars

----------------------------------------------------------------------------
(* One cascade_soft_delete over any relationship graph of three instances,    *)
(* some of which were soft-deleted before.  The call is awaited: once started *)
(* it runs until it returns.                                                  *)

CascadeEntities == {<<"TestAuthor", 1>>, <<"TestBook", 1>>, <<"TestBook", 2>>}

\* Every directed graph in which no instance is related to itself
Graphs ==
    {g \in [CascadeEntities -> SUBSET CascadeEntities] :
        \A e \in CascadeEntities : e \notin g[e]}

\* A row soft-deleted by an earlier call
EarlierDeleted ==
    [exists |-> TRUE, deleted_at |-> Some(1), deleted_by |-> Some("admin"),
     deletion_reason |-> None, is_deleted |-> TRUE]

InitCascade ==
    /\ impl = PN
    /\ related \in Graphs
    /\ rows \in [CascadeEntities -> {ActiveRow, EarlierDeleted}]
    /\ now = MaxTime
    /\ last = NoCall
    /\ pc = "idle"
    /\ stack = <<>>
    /\ processed = {}
    /\ deleted_counts = NoCounts
    /\ sessions = <<>>
    /\ soft_delete_config = DefaultConfig
    /\ pytz = TRUE
    /\ onboarding = <<>>

NextCascade ==
    \/ \E inst \in DOMAIN rows, by \in Actors, reason \in Reasons,
          max_depth \in Depths :
          CascadeSoftDelete(inst, by, reason, max_depth)
    \/ CascadeStep
    \/ CascadeReturn

SpecCascade ==
    /\ InitCascade
    /\ [][NextCascade]_vars
    /\ WF_vars(CascadeStep)
    /\ WF_vars(CascadeReturn)

----------------------------------------------------------------------------
(* One cascade_soft_delete over an author and three books of a series: the    *)
(* author is related to any of the books and a book to any of its sequels, so *)
(* that an instance can be reached from the root along paths of different     *)
(* lengths.                                                                   *)

SeriesEntities ==
    {<<"TestAuthor", 1>>, <<"TestBook", 1>>, <<"TestBook", 2>>,
     <<"TestBook", 3>>}

SeriesGraphs ==
    {g \in [SeriesEntities -> SUBSET SeriesEntities] :
        /\ g[<<"TestAuthor", 1>>] \subseteq (SeriesEntities \ {<<"TestAuthor", 1>>})
        /\ \A b \in SeriesEntities \ {<<"TestAuthor", 1>>} :
              g[b] \subseteq {s \in SeriesEntities :
                                s[1] = "TestBook" /\ s[2] > b[2]}}

InitSeries ==
    /\ impl = PN
    /\ related \in SeriesGraphs
    /\ rows \in [SeriesEntities -> {ActiveRow, EarlierDeleted}]
    /\ now = MaxTime
    /\ last = NoCall
    /\ pc = "idle"
    /\ stack = <<>>
    /\ processed = {}
    /\ deleted_counts = NoCounts
    /\ sessions = <<>>
    /\ soft_delete_config = DefaultConfig
    /\ pytz = TRUE
    /\ onboarding = <<>>

SpecSeries ==
    /\ InitSeries
    /\ [][NextCascade]_vars
    /\ WF_vars(CascadeStep)
    /\ WF_vars(CascadeReturn)

----------------------------------------------------------------------------
(* Concurrent bulk_soft_delete calls.  Each caller has its own AsyncSession,  *)
(* hence its own transaction on the configured backend, PostgreSQL, at the    *)
(* default isolation level (no isolation level is set on the engine): an      *)
(* UPDATE locks the rows it writes until its transaction ends; an UPDATE that *)
(* finds a candidate row locked by another transaction waits for it and then  *)
(* re-evaluates its WHERE clause on the committed row; a cycle of waiting     *)
(* transactions is broken by aborting one of them with an error.  rows holds  *)
(* the committed table.                                                       *)

Callers == {"A", "B"}

\* The table the concurrent callers share
SharedModel == IF impl = PN THEN "TestUser" ELSE "Contact"

\* A caller that has not called yet.  writes: the uncommitted row versions of
\* its transaction, which it holds locked
NoSession ==
    [state |-> "idle", ids |-> <<>>, by |-> None, reason |-> None,
     batch_size |-> 0, commit |-> FALSE, i |-> 0, total |-> 0, raised |-> "",
     writes |-> <<>>, op |-> "", cutoff |-> 0, batch_ids |-> {},
     loaded |-> <<>>, flag |-> FALSE]

\* The table as the transaction of s sees it: committed rows and its own writes
View(s) ==
    [e \in DOMAIN rows |->
        IF e \in DOMAIN sessions[s].writes THEN sessions[s].writes[e]
        ELSE rows[e]]

\* The rows the next UPDATE of s is about to write
Candidates(s) ==
    LET c == sessions[s]
    IN Matching(View(s), SharedModel,
                BatchIds(c.ids, c.i, IF impl = PN THEN c.batch_size
                                     ELSE Len(c.ids)),
                FALSE)

\* The callers whose transactions hold a lock the next UPDATE of s needs
WaitsFor(s) ==
    {o \in Callers \ {s} : Candidates(s) \cap DOMAIN sessions[o].writes # {}}

\* s is inside bulk_soft_delete with an UPDATE still to execute
Executing(s) ==
    sessions[s].state = "running" /\ sessions[s].i < Len(sessions[s].ids)

concurrentFrame ==
    <<impl, related, now, last, pc, stack, processed, deleted_counts,
      soft_delete_config, pytz, onboarding>>

\* s calls bulk_soft_delete(SharedModel, ids, deleted_by = s, reason =
\* "cleanup"); an empty list returns 0 at once
CallBulkSoftDelete(s, ids, batch_size, commit) ==
    /\ sessions[s].state = "idle"
    /\ sessions' = [sessions EXCEPT ![s] =
           [NoSession EXCEPT
               !.state = IF ids = <<>> THEN "done" ELSE "running",
               !.op = "bulk_soft_delete", !.ids = ids, !.by = Some(s), !.reason = Some("cleanup"),
               !.batch_size = batch_size, !.commit = commit]]
    /\ UNCHANGED rows
    /\ UNCHANGED concurrentFrame

\* The UPDATE as it would be with a commit after each batch
ExecuteUpdate_Commits(s) ==
    /\ Executing(s)
    /\ WaitsFor(s) = {}
    /\ LET c == sessions[s]
           hit == Candidates(s)
       IN /\ rows' = UpdateDeleted(rows, hit, now, c.by, c.reason)
          /\ sessions' = [sessions EXCEPT ![s] =
                 [c EXCEPT
                     !.writes = [e \in DOMAIN c.writes \cup hit |-> rows'[e]],
                     !.total = @ + Cardinality(hit),
                     !.i = @ + c.batch_size]]
    /\ UNCHANGED concurrentFrame

\* await self.session.execute(stmt): one UPDATE, of one batch in project_name
\* and of the whole list in collaboration_bridge; it runs once no candidate row
\* is locked by another transaction
ExecuteUpdate(s) ==
    /\ Executing(s)
    /\ WaitsFor(s) = {}
    /\ LET c == sessions[s]
           hit == Candidates(s)
           written == IF impl = PN
                      THEN UpdateDeleted(View(s), hit, now, c.by, c.reason)
                      ELSE UpdateDeletedCB(View(s), hit, now, c.by, c.reason)
       IN sessions' = [sessions EXCEPT ![s] =
              [c EXCEPT
                  !.writes = [e \in DOMAIN c.writes \cup hit |-> written[e]],
                  !.total = @ + Cardinality(hit),
                  !.i = IF impl = PN THEN @ + c.batch_size ELSE Len(c.ids)]]
    /\ UNCHANGED rows
    /\ UNCHANGED concurrentFrame

\* await self.session.commit() and the return of the count: after the loop in
\* project_name, after the one UPDATE `if commit` in collaboration_bridge,
\* which with commit = False returns with its transaction open
CommitAndReturn(s) ==
    /\ sessions[s].state = "running"
    /\ sessions[s].i >= Len(sessions[s].ids)
    /\ IF impl = PN \/ sessions[s].commit
       THEN /\ rows' = View(s)
            /\ sessions' = [sessions EXCEPT ![s].state = "done",
                                            ![s].writes = <<>>]
       ELSE /\ rows' = rows
            /\ sessions' = [sessions EXCEPT ![s].state = "done"]
    /\ UNCHANGED concurrentFrame

\* The caller of collaboration_bridge's bulk_soft_delete(commit = False)
\* commits its session
CallerCommits(s) ==
    /\ sessions[s].state = "done"
    /\ DOMAIN sessions[s].writes # {}
    /\ rows' = View(s)
    /\ sessions' = [sessions EXCEPT ![s].writes = <<>>]
    /\ UNCHANGED concurrentFrame

\* s and another caller each wait for a row the other holds: the database
\* aborts the transaction of s, whose execute raises; bulk_soft_delete catches
\* nothing
DeadlockDetected(s) ==
    /\ Executing(s)
    /\ \E o \in WaitsFor(s) : Executing(o) /\ s \in WaitsFor(o)
    /\ sessions' = [sessions EXCEPT ![s].state = "done",
                                    ![s].raised = "DeadlockDetectedError",
                                    ![s].writes = <<>>]
    /\ UNCHANGED rows
    /\ UNCHANGED concurrentFrame

InitConcurrent ==
    /\ impl \in {PN, CB}
    /\ LET model == IF impl = PN THEN "TestUser" ELSE "Contact"
       IN /\ rows \in [{<<model, 1>>, <<model, 2>>} ->
                          {ActiveRow, EarlierDeleted}]
          /\ related = [e \in {<<model, 1>>, <<model, 2>>} |-> {}]
    /\ now = MaxTime
    /\ last = NoCall
    /\ pc = "idle"
    /\ stack = <<>>
    /\ processed = {}
    /\ deleted_counts = NoCounts
    /\ sessions = [s \in Callers |-> NoSession]
    /\ soft_delete_config = DefaultConfig
    /\ pytz = TRUE
    /\ onboarding = <<>>

NextConcurrent ==
    \/ \E s \in Callers, ids \in IdLists, batch_size \in BatchSizes :
          impl = PN /\ CallBulkSoftDelete(s, ids, batch_size, TRUE)
    \/ \E s \in Callers, ids \in IdLists, commit \in BOOLEAN :
          impl = CB /\ CallBulkSoftDelete(s, ids, 0, commit)
    \/ \E s \in Callers : ExecuteUpdate(s)
    \/ \E s \in Callers : CommitAndReturn(s)
    \/ \E s \in Callers : CallerCommits(s)
    \/ \E s \in Callers : DeadlockDetected(s)

SpecConcurrent == InitConcurrent /\ [][NextConcurrent]_vars

----------------------------------------------------------------------------
(* project_name's hard_delete_before statement by statement, with the         *)
(* failures and the other sessions that can come between its statements       *)

\* s calls hard_delete_before(SharedModel, cutoff, batch_size)
CallHardDeleteBefore(s, cutoff, batch_size) ==
    /\ sessions[s].state = "idle"
    /\ sessions' = [sessions EXCEPT ![s] =
           [NoSession EXCEPT !.state = "selecting",
                             !.op = "hard_delete_before",
                             !.cutoff = cutoff, !.batch_size = batch_size]]
    /\ UNCHANGED rows
    /\ UNCHANGED concurrentFrame

\* The round as it would read with `if len(batch_ids) < batch_size: break`
SelectBatch_BreakOnShort(s) ==
    /\ sessions[s].state = "selecting"
    /\ LET c == sessions[s]
           found == Purgeable(rows, SharedModel, c.cutoff)
       IN \E batch \in SUBSET found :
             /\ Cardinality(batch) = Min(c.batch_size, Cardinality(found))
             /\ sessions' = [sessions EXCEPT ![s] =
                    [c EXCEPT !.batch_ids = batch,
                              !.state = IF Cardinality(batch) < c.batch_size
                                        THEN "done" ELSE "deleting"]]
    /\ UNCHANGED rows
    /\ UNCHANGED concurrentFrame

\* The SELECT ... LIMIT batch_size of one round and `if not batch_ids: break`,
\* after which total_deleted is returned.  Without ORDER BY any batch_size of
\* the matching rows may be selected.
SelectBatch(s) ==
    /\ sessions[s].state = "selecting"
    /\ LET c == sessions[s]
           found == Purgeable(rows, SharedModel, c.cutoff)
       IN \E batch \in SUBSET found :
             /\ Cardinality(batch) = Min(c.batch_size, Cardinality(found))
             /\ sessions' = [sessions EXCEPT ![s] =
                    [c EXCEPT !.batch_ids = batch,
                              !.state = IF batch = {} THEN "done"
                                        ELSE "deleting"]]
    /\ UNCHANGED rows
    /\ UNCHANGED concurrentFrame

\* DELETE ... WHERE id IN (batch_ids), total_deleted += rowcount, and the commit
\* of the round
DeleteBatch(s) ==
    /\ sessions[s].state = "deleting"
    /\ LET c == sessions[s]
           hit == {e \in c.batch_ids : rows[e].exists}
       IN /\ rows' = DeleteRows(rows, hit)
          /\ sessions' = [sessions EXCEPT ![s] =
                 [c EXCEPT !.total = @ + Cardinality(hit),
                           !.batch_ids = {}, !.state = "selecting"]]
    /\ UNCHANGED concurrentFrame

\* An execute of hard_delete_before raises (the connection is lost, a
\* statement times out): nothing is caught, the open round is not committed
PurgeFails(s) ==
    /\ sessions[s].state \in {"selecting", "deleting"}
    /\ sessions' = [sessions EXCEPT ![s].state = "done",
                                    ![s].raised = "OperationalError"]
    /\ UNCHANGED rows
    /\ UNCHANGED concurrentFrame

\* An execute of bulk_soft_delete raises: nothing is caught, the commit after
\* the loop is not reached, and the session's transaction is rolled back
ExecuteFails(s) ==
    /\ Executing(s)
    /\ sessions' = [sessions EXCEPT ![s].state = "done",
                                    ![s].raised = "OperationalError",
                                    ![s].writes = <<>>]
    /\ UNCHANGED rows
    /\ UNCHANGED concurrentFrame

\* Another session runs bulk_restore(SharedModel, ids) to its commit
RestoreCommitted(s, ids, batch_size) ==
    /\ sessions[s].state = "idle"
    /\ ids # <<>>
    /\ LET st == bulk_restore_loop([rows |-> rows, total |-> 0, stmts |-> 0],
                                   SharedModel, ids, 0, batch_size)
       IN /\ rows' = st.rows
          /\ sessions' = [sessions EXCEPT ![s] =
                 [NoSession EXCEPT !.state = "done", !.op = "bulk_restore",
                                   !.ids = ids, !.batch_size = batch_size,
                                   !.total = st.total]]
    /\ UNCHANGED concurrentFrame

\* The rows of the shared table
PurgeKeys == {<<"TestUser", i>> : i \in 1..(MaxLen + 1)}

\* A row soft-deleted at time t
DeletedAt(t) == [EarlierDeleted EXCEPT !.deleted_at = Some(t)]

InitPurge ==
    /\ impl = PN
    /\ rows \in [PurgeKeys -> {ActiveRow} \cup {DeletedAt(t) : t \in Times}]
    /\ related = [e \in PurgeKeys |-> {}]
    /\ now = MaxTime
    /\ last = NoCall
    /\ pc = "idle"
    /\ stack = <<>>
    /\ processed = {}
    /\ deleted_counts = NoCounts
    /\ sessions = [s \in Callers |-> NoSession]
    /\ soft_delete_config = DefaultConfig
    /\ pytz = TRUE
    /\ onboarding = <<>>

\* hard_delete_before called by one session, nothing else touching the table
NextPurge ==
    \/ \E cutoff \in Cutoffs, batch_size \in BatchSizes :
          CallHardDeleteBefore("A", cutoff, batch_size)
    \/ SelectBatch("A")
    \/ DeleteBatch("A")

\* The call is awaited to its end: each of its statements is executed
SpecPurge ==
    /\ InitPurge
    /\ [][NextPurge]_vars
    /\ WF_vars(SelectBatch("A"))
    /\ WF_vars(DeleteBatch("A"))

\* One session whose statements can fail
NextFailure ==
    \/ \E ids \in IdLists, batch_size \in BatchSizes :
          CallBulkSoftDelete("A", ids, batch_size, TRUE)
    \/ ExecuteUpdate("A")
    \/ CommitAndReturn("A")
    \/ ExecuteFails("A")
    \/ \E cutoff \in Cutoffs, batch_size \in BatchSizes :
          CallHardDeleteBefore("A", cutoff, batch_size)
    \/ SelectBatch("A")
    \/ DeleteBatch("A")
    \/ PurgeFails("A")

SpecFailure == InitPurge /\ [][NextFailure]_vars

\* hard_delete_before on session A while session B restores rows
NextPurgeRace ==
    \/ \E cutoff \in Cutoffs, batch_size \in BatchSizes :
          CallHardDeleteBefore("A", cutoff, batch_size)
    \/ SelectBatch("A")
    \/ DeleteBatch("A")
    \/ \E ids \in IdLists, batch_size \in BatchSizes :
          RestoreCommitted("B", ids, batch_size)

SpecPurgeRace == InitPurge /\ [][NextPurgeRace]_vars

----------------------------------------------------------------------------
(* The managers called with a model class that lacks SoftDeleteMixin *)

\* A row of a table without the four mixin columns
PlainRow == [exists |-> TRUE]

InitCapability ==
    /\ impl \in {PN, CB}
    /\ rows = [e \in {<<"RapportTactic", 1>>, <<"RapportTactic", 2>>} |->
                  PlainRow]
    /\ related = [e \in {<<"RapportTactic", 1>>, <<"RapportTactic", 2>>} |-> {}]
    /\ now = 1
    /\ last = NoCall
    /\ pc = "idle"
    /\ stack = <<>>
    /\ processed = {}
    /\ deleted_counts = NoCounts
    /\ sessions = <<>>
    /\ soft_delete_config = DefaultConfig
    /\ pytz = TRUE
    /\ onboarding = <<>>

NextCapability ==
    \/ Tick
    \/ Forget
    \/ \E model \in Models, ids \in IdLists, by \in Actors, reason \in Reasons,
          batch_size \in BatchSizes :
          BulkSoftDeletePN(model, ids, by, reason, batch_size)
    \/ \E model \in Models, ids \in IdLists, by \in Actors, reason \in Reasons,
          commit \in BOOLEAN :
          BulkSoftDeleteCB(model, ids, by, reason, commit)
    \/ \E model \in Models, ids \in IdLists, batch_size \in BatchSizes :
          BulkRestorePN(model, ids, batch_size)
    \/ \E model \in Models, ids \in IdLists, commit \in BOOLEAN :
          BulkRestoreCB(model, ids, commit)
    \/ \E model \in Models, cutoff \in Cutoffs, batch_size \in BatchSizes :
          HardDeleteBeforePN(model, cutoff, batch_size)
    \/ \E model \in Models, cutoff \in Cutoffs, commit \in BOOLEAN :
          HardDeleteBeforeCB(model, cutoff, commit)

SpecCapability == InitCapability /\ [][NextCapability]_vars

----------------------------------------------------------------------------
(* The policy configuration: construction, the global instance, validation *)

\* What callers pass: cleanup hours, a timezone, the testing flag
Kwargs ==
    {[NoKwargs EXCEPT !.cleanup_schedule_hours = h, !.timezone = tz,
                      !.skip_validation = skip] :
        h \in {None} \cup {Some(l) : l \in HourLists},
        tz \in {None} \cup {Some(z) : z \in Timezones},
        skip \in {None, Some(TRUE), Some(FALSE)}}

OperationTypes == {"soft_delete", "bulk_delete"}

configFrame ==
    <<impl, rows, related, now, stack, processed, deleted_counts, sessions,
      pytz, onboarding>>

\* config = SoftDeleteConfig(**kw)
ConstructConfig(kw) ==
    /\ pc = "idle"
    /\ LET built == NewSoftDeleteConfig(kw, pytz)
       IN last' = [NoCall EXCEPT !.op = "SoftDeleteConfig", !.kwargs = kw,
                                 !.obj = built.obj, !.raised = built.raised]
    /\ pc' = "returned"
    /\ UNCHANGED soft_delete_config
    /\ UNCHANGED configFrame

\* update_soft_delete_config(**kw): current_values = soft_delete_config.dict()
\* updated with kw, every field passed to SoftDeleteConfig; the global is
\* assigned only when the constructor returns
UpdateSoftDeleteConfig(kw) ==
    /\ pc = "idle"
    /\ LET current_values ==
               [f \in ConfigFields |->
                   IF kw[f] = None THEN Some(soft_delete_config[f]) ELSE kw[f]]
           built == NewSoftDeleteConfig(current_values, pytz)
       IN /\ last' = [NoCall EXCEPT !.op = "update_soft_delete_config",
                                    !.kwargs = kw, !.raised = built.raised]
          /\ soft_delete_config' = IF built.raised = "" THEN built.obj[1]
                                   ELSE soft_delete_config
    /\ pc' = "returned"
    /\ UNCHANGED configFrame

\* get_soft_delete_config().validate_operation(kind, deleted_by, reason)
ValidateOperation(kind, deleted_by, reason) ==
    /\ pc = "idle"
    /\ last' = [NoCall EXCEPT
                   !.op = "validate_operation", !.kind = kind,
                   !.by = deleted_by, !.reason = reason,
                   !.raised = validate_operation(soft_delete_config,
                                                 deleted_by, reason)]
    /\ pc' = "returned"
    /\ UNCHANGED soft_delete_config
    /\ UNCHANGED configFrame

\* The process starts with a configuration built from the environment
\* (SOFT_DELETE_* variables): the audit flags are whatever was set there
InitConfig ==
    /\ impl = PN
    /\ rows = <<>>
    /\ related = <<>>
    /\ now = 1
    /\ last = NoCall
    /\ pc = "idle"
    /\ stack = <<>>
    /\ processed = {}
    /\ deleted_counts = NoCounts
    /\ sessions = <<>>
    /\ pytz \in BOOLEAN
    /\ onboarding = <<>>
    /\ \E by \in BOOLEAN, reason \in BOOLEAN :
          soft_delete_config =
              [DefaultConfig EXCEPT !.require_deleted_by = by,
                                    !.require_deletion_reason = reason]

NextConfig ==
    \/ Forget
    \/ \E kw \in Kwargs : ConstructConfig(kw)
    \/ \E kw \in Kwargs : UpdateSoftDeleteConfig(kw)
    \/ \E kind \in OperationTypes,
          deleted_by \in Actors \cup {Some("")},
          reason \in Reasons \cup {Some("")} :
          ValidateOperation(kind, deleted_by, reason)

SpecConfig == InitConfig /\ [][NextConfig]_vars

----------------------------------------------------------------------------
(* The health checker *)

HealthModels == {"TestAuthor", "TestBook", "RapportTactic"}
ClassLists == UNION {[1..n -> HealthModels] : n \in 0..MaxLen}
TableContents == [{"TestAuthor", "TestBook"} -> TableStates]

healthFrame ==
    <<impl, rows, related, now, stack, processed, deleted_counts, sessions,
      soft_delete_config, pytz, onboarding>>

\* DatabaseHealthChecker.check_connection
CheckConnection(outcome) ==
    /\ pc = "idle"
    /\ last' = [NoCall EXCEPT !.op = "check_connection", !.env = outcome,
                              !.obj = Some(check_connection(outcome))]
    /\ pc' = "returned"
    /\ UNCHANGED healthFrame

\* DatabaseHealthChecker.get_health_report
GetHealthReport(outcome, model_classes, tables) ==
    /\ pc = "idle"
    /\ last' = [NoCall EXCEPT
                   !.op = "get_health_report", !.classes = model_classes,
                   !.env = [outcome |-> outcome, tables |-> tables],
                   !.obj = Some(get_health_report(outcome, model_classes,
                                                  tables))]
    /\ pc' = "returned"
    /\ UNCHANGED healthFrame

InitHealth ==
    /\ impl = PN
    /\ rows = <<>>
    /\ related = <<>>
    /\ now = 1
    /\ last = NoCall
    /\ pc = "idle"
    /\ stack = <<>>
    /\ processed = {}
    /\ deleted_counts = NoCounts
    /\ sessions = <<>>
    /\ soft_delete_config = DefaultConfig
    /\ pytz = TRUE
    /\ onboarding = <<>>

NextHealth ==
    \/ Forget
    \/ \E outcome \in Outcomes : CheckConnection(outcome)
    \/ /\ pc = "idle"
       /\ \E outcome \in Outcomes, model_classes \in ClassLists,
             tables \in TableContents :
             GetHealthReport(outcome, model_classes, tables)

SpecHealth == InitHealth /\ [][NextHealth]_vars

----------------------------------------------------------------------------
(* The manager of project_name with its statistics *)

InitStats ==
    /\ Init
    /\ impl = PN

NextStats ==
    \/ Tick
    \/ Forget
    \/ \E model \in Models, ids \in IdLists, by \in Actors,
          reason \in Reasons, batch_size \in BatchSizes :
          BulkSoftDeletePN(model, ids, by, reason, batch_size)
    \/ \E model \in Models, ids \in IdLists, batch_size \in BatchSizes :
          BulkRestorePN(model, ids, batch_size)
    \/ \E model \in Models : GetDeletionStats(model)

SpecStats == InitStats /\ [][NextStats]_vars

----------------------------------------------------------------------------
(* CRUDBase and CRUDContact of collaboration_bridge, one call at a time *)

Users == {"alice", "bob"}

\* The row create_with_owner inserts
OwnedRow(user_id) == [user_id |-> user_id] @@ ActiveRow

\* CRUDBase._get_active_filter as it would read if it filtered nothing
get_active_filter_Unfiltered(model, r) == TRUE

\* CRUDBase._get_active_filter applied to a row: is_deleted IS false for a model
\* with the mixin, True otherwise
get_active_filter(model, r) ==
    IF SupportsSoftDelete(model) THEN r.is_deleted = FALSE ELSE TRUE

\* The rows the query of CRUDBase.get selects
crud_get(rws, model, id) ==
    {e \in DOMAIN rws : /\ e = <<model, id>>
                        /\ rws[e].exists
                        /\ get_active_filter(model, rws[e])}

\* The rows the query of CRUDContact.get_by_user selects
get_by_user(rws, user_id, contact_id) ==
    {e \in DOMAIN rws : /\ e = <<"Contact", contact_id>>
                        /\ rws[e].exists
                        /\ rws[e].user_id = user_id
                        /\ get_active_filter("Contact", rws[e])}

\* The rows the query of get_multi_by_user selects before OFFSET and LIMIT
get_multi_by_user(rws, model, user_id) ==
    {e \in DOMAIN rws : /\ e[1] = model
                        /\ rws[e].exists
                        /\ rws[e].user_id = user_id
                        /\ get_active_filter(model, rws[e])}

\* scalars().first(): None, or the one row selected by primary key
First(selected) ==
    IF selected = {} THEN None ELSE Some(CHOOSE e \in selected : TRUE)

crudFrame == <<impl, related, now, stack, processed, deleted_counts>>

\* CRUDContact.create_with_owner: a row under a fresh primary key
CrudCreateWithOwner(model, user_id) ==
    /\ pc = "idle"
    /\ \E e \in DOMAIN rows :
          /\ e[1] = model
          /\ rows[e] = NoRow
          /\ \A x \in DOMAIN rows :
                (x[1] = model /\ x[2] < e[2]) => rows[x] # NoRow
          /\ rows' = [rows EXCEPT ![e] = OwnedRow(user_id)]
          /\ last' = [NoCall EXCEPT !.op = "create_with_owner",
                                    !.model = model, !.inst = e,
                                    !.by = Some(user_id), !.commits = 1,
                                    !.obj = Some(e)]
    /\ pc' = "returned"
    /\ UNCHANGED crudFrame
    /\ UNCHANGED elsewhere

\* CRUDBase.remove(db_obj, deleted_by, reason) on an instance loaded from its row
CrudRemove(e, by, reason) ==
    /\ pc = "idle"
    /\ rows[e].exists
    /\ rows' = IF SupportsSoftDelete(e[1])
               THEN [rows EXCEPT ![e] = soft_delete_cb(@, now, by, reason)[1]]
               ELSE [rows EXCEPT ![e].exists = FALSE]
    /\ last' = [NoCall EXCEPT !.op = "remove", !.model = e[1], !.inst = e,
                              !.by = by, !.reason = reason, !.commits = 1,
                              !.obj = Some(e)]
    /\ pc' = "returned"
    /\ UNCHANGED crudFrame
    /\ UNCHANGED elsewhere

\* CRUDBase.restore(db_obj) on an instance loaded from its row
CrudRestore(e) ==
    /\ pc = "idle"
    /\ rows[e].exists
    /\ rows' = IF SupportsSoftDelete(e[1])
               THEN [rows EXCEPT ![e] = restore_cb(@)[1]]
               ELSE rows
    /\ last' = [NoCall EXCEPT
                   !.op = "crud_restore", !.model = e[1], !.inst = e,
                   !.commits = IF SupportsSoftDelete(e[1]) THEN 1 ELSE 0,
                   !.obj = Some(e)]
    /\ pc' = "returned"
    /\ UNCHANGED crudFrame
    /\ UNCHANGED elsewhere

\* CRUDBase.get(id)
CrudGet(model, id) ==
    /\ pc = "idle"
    /\ last' = [NoCall EXCEPT !.op = "get", !.model = model, !.ids = <<id>>,
                              !.stmts = 1,
                              !.obj = First(crud_get(rows, model, id))]
    /\ pc' = "returned"
    /\ UNCHANGED <<rows, crudFrame>>
    /\ UNCHANGED elsewhere

\* CRUDContact.get_by_user(user_id, contact_id)
CrudGetByUser(user_id, contact_id) ==
    /\ pc = "idle"
    /\ last' = [NoCall EXCEPT
                   !.op = "get_by_user", !.model = "Contact",
                   !.ids = <<contact_id>>, !.by = Some(user_id), !.stmts = 1,
                   !.obj = First(get_by_user(rows, user_id, contact_id))]
    /\ pc' = "returned"
    /\ UNCHANGED <<rows, crudFrame>>
    /\ UNCHANGED elsewhere

\* CRUDContact.get_multi_by_user(user_id, skip = 0, limit): the rows come
\* ordered by name, which the model does not hold, so any limit of the
\* selected rows may be the ones returned
CrudGetMultiByUser(user_id, limit) ==
    /\ pc = "idle"
    /\ \E page \in SUBSET get_multi_by_user(rows, "Contact", user_id) :
          /\ Cardinality(page)
                = Min(limit,
                      Cardinality(get_multi_by_user(rows, "Contact", user_id)))
          /\ last' = [NoCall EXCEPT
                         !.op = "get_multi_by_user", !.model = "Contact",
                         !.by = Some(user_id), !.batch_size = limit,
                         !.stmts = 1, !.obj = Some(page)]
    /\ pc' = "returned"
    /\ UNCHANGED <<rows, crudFrame>>
    /\ UNCHANGED elsewhere

\* The page sizes asked for: the one of the onboarding check and the default
Limits == {1, 100}

InitCrud ==
    /\ impl = CB
    /\ rows = (<<"Contact", 1>> :> NoRow) @@ (<<"Contact", 2>> :> NoRow)
              @@ (<<"RapportTactic", 1>> :> PlainRow)
    /\ related = [e \in {<<"Contact", 1>>, <<"Contact", 2>>,
                          <<"RapportTactic", 1>>} |-> {}]
    /\ now = 1
    /\ last = NoCall
    /\ pc = "idle"
    /\ stack = <<>>
    /\ processed = {}
    /\ deleted_counts = NoCounts
    /\ sessions = <<>>
    /\ soft_delete_config = DefaultConfig
    /\ pytz = TRUE
    /\ onboarding = <<>>

NextCrud ==
    \/ Tick
    \/ Forget
    \/ \E user_id \in Users : CrudCreateWithOwner("Contact", user_id)
    \/ \E e \in DOMAIN rows, by \in Actors, reason \in Reasons :
          CrudRemove(e, by, reason)
    \/ \E e \in DOMAIN rows : CrudRestore(e)
    \/ \E model \in Models, id \in Ids : CrudGet(model, id)
    \/ \E user_id \in Users, id \in Ids : CrudGetByUser(user_id, id)
    \/ \E user_id \in Users, limit \in Limits :
          CrudGetMultiByUser(user_id, limit)

SpecCrud == InitCrud /\ [][NextCrud]_vars

----------------------------------------------------------------------------
(* The onboarding endpoints of collaboration_bridge, one request at a time *)

\* OnboardingStep, in the order of the flow
OnboardingSteps ==
    <<"welcome", "contact_added", "interaction_logged", "completed">>

\* No onboarding_progress row for the user
NoOnboarding == [exists |-> FALSE, current_step |-> "", is_complete |-> FALSE]

\* The row get_or_create_by_user creates
NewOnboarding ==
    [exists |-> TRUE, current_step |-> "welcome", is_complete |-> FALSE]

\* CRUDOnboarding.get_or_create_by_user, as the row it returns and leaves stored
get_or_create_by_user(record) ==
    IF record.exists THEN record ELSE NewOnboarding

\* advance_onboarding_step as it would read without the two prerequisite checks
advance_onboarding_step_Unchecked(record, contacts, interactions) ==
    IF record.is_complete THEN [record |-> record, raised |-> ""]
    ELSE IF record.current_step = "welcome"
    THEN [record |-> [record EXCEPT !.current_step = "contact_added"],
          raised |-> ""]
    ELSE IF record.current_step = "contact_added"
    THEN [record |-> [record EXCEPT !.current_step = "interaction_logged"],
          raised |-> ""]
    ELSE IF record.current_step = "interaction_logged"
    THEN [record |-> [record EXCEPT !.current_step = "completed",
                                    !.is_complete = TRUE],
          raised |-> ""]
    ELSE [record |-> record, raised |-> ""]

\* advance_onboarding_step as it would read without
\* `update_data.is_complete = True`
advance_onboarding_step_NoFlag(record, contacts, interactions) ==
    IF record.is_complete THEN [record |-> record, raised |-> ""]
    ELSE IF record.current_step = "welcome"
    THEN [record |-> [record EXCEPT !.current_step = "contact_added"],
          raised |-> ""]
    ELSE IF record.current_step = "contact_added"
    THEN IF contacts = {}
         THEN [record |-> record, raised |-> "HTTP 400"]
         ELSE [record |-> [record EXCEPT
                              !.current_step = "interaction_logged"],
               raised |-> ""]
    ELSE IF record.current_step = "interaction_logged"
    THEN IF interactions = {}
         THEN [record |-> record, raised |-> "HTTP 400"]
         ELSE [record |-> [record EXCEPT !.current_step = "completed"],
               raised |-> ""]
    ELSE [record |-> record, raised |-> ""]

\* The body of advance_onboarding_step after get_or_create_by_user: record is
\* the user's row, contacts and interactions what the two get_multi_by_user
\* queries select.  onboarding_crud.update writes the fields that were assigned
\* on update_data: current_step always, is_complete on the last step only.
advance_onboarding_step(record, contacts, interactions) ==
    IF record.is_complete THEN [record |-> record, raised |-> ""]
    ELSE IF record.current_step = "welcome"
    THEN [record |-> [record EXCEPT !.current_step = "contact_added"],
          raised |-> ""]
    ELSE IF record.current_step = "contact_added"
    THEN IF contacts = {}
         THEN [record |-> record, raised |-> "HTTP 400"]
         ELSE [record |-> [record EXCEPT
                              !.current_step = "interaction_logged"],
               raised |-> ""]
    ELSE IF record.current_step = "interaction_logged"
    THEN IF interactions = {}
         THEN [record |-> record, raised |-> "HTTP 400"]
         ELSE [record |-> [record EXCEPT !.current_step = "completed",
                                         !.is_complete = TRUE],
               raised |-> ""]
    ELSE [record |-> record, raised |-> ""]

onboardingFrame ==
    <<impl, rows, related, now, stack, processed, deleted_counts, sessions,
      soft_delete_config, pytz>>

\* GET /onboarding/ for the authenticated user
GetOnboardingStatus(user_id) ==
    /\ pc = "idle"
    /\ onboarding' =
          [onboarding EXCEPT ![user_id] = get_or_create_by_user(@)]
    /\ last' = [NoCall EXCEPT
                   !.op = "get_onboarding_status", !.by = Some(user_id),
                   !.obj = Some(get_or_create_by_user(onboarding[user_id]))]
    /\ pc' = "returned"
    /\ UNCHANGED onboardingFrame

\* POST /onboarding/next for the authenticated user
AdvanceOnboardingStep(user_id) ==
    /\ pc = "idle"
    /\ LET res == advance_onboarding_step(
                      get_or_create_by_user(onboarding[user_id]),
                      get_multi_by_user(rows, "Contact", user_id),
                      get_multi_by_user(rows, "Interaction", user_id))
       IN /\ onboarding' = [onboarding EXCEPT ![user_id] = res.record]
          /\ last' = [NoCall EXCEPT
                         !.op = "advance_onboarding_step",
                         !.by = Some(user_id), !.raised = res.raised,
                         !.obj = IF res.raised = "" THEN Some(res.record)
                                 ELSE None]
    /\ pc' = "returned"
    /\ UNCHANGED onboardingFrame

\* CRUDInteraction.create_with_tactics for a user, without tactic logs
CreateWithTactics(user_id) == CrudCreateWithOwner("Interaction", user_id)

InitOnboarding ==
    /\ impl = CB
    /\ rows = (<<"Contact", 1>> :> NoRow) @@ (<<"Interaction", 1>> :> NoRow)
    /\ related = [e \in {<<"Contact", 1>>, <<"Interaction", 1>>} |-> {}]
    /\ now = 1
    /\ last = NoCall
    /\ pc = "idle"
    /\ stack = <<>>
    /\ processed = {}
    /\ deleted_counts = NoCounts
    /\ sessions = <<>>
    /\ soft_delete_config = DefaultConfig
    /\ pytz = TRUE
    /\ onboarding = [u \in Users |-> NoOnboarding]

NextOnboarding ==
    \/ Forget
    \/ \E user_id \in Users : GetOnboardingStatus(user_id)
    \/ \E user_id \in Users : AdvanceOnboardingStep(user_id)
    \/ \E user_id \in Users : CrudCreateWithOwner("Contact", user_id)
    \/ \E user_id \in Users : CreateWithTactics(user_id)
    \/ \E e \in DOMAIN rows : CrudRemove(e, None, None)
    \/ \E e \in DOMAIN rows : CrudRestore(e)

SpecOnboarding == InitOnboarding /\ [][NextOnboarding]_vars

----------------------------------------------------------------------------
(* BaseService.soft_delete and BaseService.restore, one call at a time *)

\* BaseService.get_by_id of both packages: the row with the primary key,
\* filtered on is_deleted being false unless include_deleted
get_by_id(rws, model, id, include_deleted) ==
    {e \in DOMAIN rws : /\ e = <<model, id>>
                        /\ rws[e].exists
                        /\ include_deleted \/ rws[e].is_deleted = FALSE}

\* BaseService.soft_delete(id, deleted_by, reason), with cascade = False in
\* project_name
ServiceSoftDelete(model, id, by, reason) ==
    /\ pc = "idle"
    /\ LET found == get_by_id(rows, model, id, FALSE)
           call == [NoCall EXCEPT !.op = "service_soft_delete",
                                  !.model = model, !.ids = <<id>>, !.by = by,
                                  !.reason = reason, !.stmts = 1]
       IN IF found = {}
          THEN /\ rows' = rows
               /\ last' = call
          ELSE LET e == CHOOSE x \in found : TRUE
                   res == IF impl = PN
                          THEN soft_delete_pn(rows[e], now, by, reason)
                          ELSE soft_delete_cb(rows[e], now, by, reason)
               IN /\ rows' = [rows EXCEPT ![e] = res[1]]
                  /\ last' = IF res[2] # ""
                             THEN [call EXCEPT !.raised = res[2]]
                             ELSE [call EXCEPT !.flag = TRUE, !.commits = 1]
    /\ pc' = "returned"
    /\ UNCHANGED <<impl, related, now, stack, processed, deleted_counts>>
    /\ UNCHANGED elsewhere

\* BaseService.restore(id): project_name returns False for an instance that is
\* not is_soft_deleted, collaboration_bridge restores whatever it loaded
ServiceRestore(model, id) ==
    /\ pc = "idle"
    /\ LET found == get_by_id(rows, model, id, TRUE)
           call == [NoCall EXCEPT !.op = "service_restore", !.model = model,
                                  !.ids = <<id>>, !.stmts = 1]
       IN IF found = {}
          THEN /\ rows' = rows
               /\ last' = call
          ELSE LET e == CHOOSE x \in found : TRUE
               IN IF impl = PN /\ ~ is_soft_deleted(rows[e])
                  THEN /\ rows' = rows
                       /\ last' = call
                  ELSE LET res == IF impl = PN THEN restore_pn(rows[e])
                                  ELSE restore_cb(rows[e])
                       IN /\ rows' = [rows EXCEPT ![e] = res[1]]
                          /\ last' = IF res[2] # ""
                                     THEN [call EXCEPT !.raised = res[2]]
                                     ELSE [call EXCEPT !.flag = TRUE,
                                                       !.commits = 1]
    /\ pc' = "returned"
    /\ UNCHANGED <<impl, related, now, stack, processed, deleted_counts>>
    /\ UNCHANGED elsewhere

NextService ==
    \/ Tick
    \/ Forget
    \/ \E model \in Models, id \in Ids, by \in Actors, reason \in Reasons :
          ServiceSoftDelete(model, id, by, reason)
    \/ \E model \in Models, id \in Ids : ServiceRestore(model, id)

SpecService == Init /\ [][NextService]_vars

----------------------------------------------------------------------------
(* BaseService.soft_delete statement by statement, called by two requests     *)
(* with a session each: get_by_id loads the instance into the session, the    *)
(* mixin changes the loaded instance in memory, and commit flushes the        *)
(* changed attributes with an UPDATE of the row by primary key and commits.   *)
(* loaded is the row as the session read it.                                  *)

\* s calls soft_delete(id, deleted_by = s, reason = "cleanup")
CallServiceSoftDelete(s, id) ==
    /\ sessions[s].state = "idle"
    /\ sessions' = [sessions EXCEPT ![s] =
           [NoSession EXCEPT !.state = "running", !.op = "service_soft_delete",
                             !.ids = <<id>>, !.by = Some(s),
                             !.reason = Some("cleanup")]]
    /\ UNCHANGED rows
    /\ UNCHANGED concurrentFrame

\* instance = await self.get_by_id(id); `if not instance: return False`
LoadInstance(s) ==
    /\ sessions[s].state = "running"
    /\ LET found == get_by_id(rows, SharedModel, sessions[s].ids[1], FALSE)
       IN sessions' = [sessions EXCEPT ![s] =
              IF found = {}
              THEN [@ EXCEPT !.state = "done", !.flag = FALSE]
              ELSE [@ EXCEPT !.state = "loaded",
                             !.loaded = [e \in found |-> rows[e]]]]
    /\ UNCHANGED rows
    /\ UNCHANGED concurrentFrame

\* The UPDATE a flush emits for a changed instance: the attributes that differ
\* from their loaded values, WHERE id = the primary key
Flush(row, loaded, instance) ==
    [f \in DOMAIN row |->
        IF instance[f] # loaded[f] THEN instance[f] ELSE row[f]]

\* instance.soft_delete(deleted_by, reason); await self.session.commit();
\* return True.  The guard of project_name's mixin reads the loaded instance
CommitSoftDelete(s) ==
    /\ sessions[s].state = "loaded"
    /\ LET c == sessions[s]
           e == CHOOSE x \in DOMAIN c.loaded : TRUE
           res == IF impl = PN
                  THEN soft_delete_pn(c.loaded[e], now, c.by, c.reason)
                  ELSE soft_delete_cb(c.loaded[e], now, c.by, c.reason)
       IN IF res[2] # ""
          THEN /\ rows' = rows
               /\ sessions' = [sessions EXCEPT ![s].state = "done",
                                               ![s].raised = res[2]]
          ELSE /\ rows' = [rows EXCEPT
                              ![e] = Flush(@, c.loaded[e], res[1])]
               /\ sessions' = [sessions EXCEPT ![s].state = "done",
                                               ![s].flag = TRUE,
                                               ![s].loaded = (e :> res[1])]
    /\ UNCHANGED concurrentFrame

InitServiceRace ==
    /\ impl \in {PN, CB}
    /\ LET model == IF impl = PN THEN "TestUser" ELSE "Contact"
       IN /\ rows \in [{<<model, 1>>, <<model, 2>>} ->
                          {ActiveRow, EarlierDeleted}]
          /\ related = [e \in {<<model, 1>>, <<model, 2>>} |-> {}]
    /\ now = 1
    /\ last = NoCall
    /\ pc = "idle"
    /\ stack = <<>>
    /\ processed = {}
    /\ deleted_counts = NoCounts
    /\ sessions = [s \in Callers |-> NoSession]
    /\ soft_delete_config = DefaultConfig
    /\ pytz = TRUE
    /\ onboarding = <<>>

NextServiceRace ==
    \/ Tick
    \/ \E s \in Callers, id \in Ids : CallServiceSoftDelete(s, id)
    \/ \E s \in Callers : LoadInstance(s)
    \/ \E s \in Callers : CommitSoftDelete(s)

SpecServiceRace == InitServiceRace /\ [][NextServiceRace]_vars

----------------------------------------------------------------------------
(* Properties *)

\* A step in which a call of op starts and returns
Returns(op) == pc = "idle" /\ pc' = "returned" /\ last'.op = op

\* C1: in every state reached by soft_delete, restore, bulk_soft_delete,
\* bulk_restore, hard_delete_before and cascade_soft_delete from rows created
\* active, is_deleted is true exactly when deleted_at is not null, of every row.
C1_FlagIffTimestamp ==
    \A e \in DOMAIN rows :
        rows[e].exists => (rows[e].is_deleted = TRUE <=> rows[e].deleted_at # None)

\* C1 witness: a bulk_restore has restored one row while another row, deleted
\* by a cascade or a bulk delete before it, stays deleted
C1_Witness ==
    /\ last.op = "bulk_restore"
    /\ last.ret = 1
    /\ \E e \in DOMAIN rows : rows[e].is_deleted /\ rows[e].deleted_at # None
    /\ \E e \in DOMAIN rows : ~ rows[e].is_deleted /\ rows[e].deleted_at = None

\* C2: soft_delete on an entity that is already soft-deleted raises ValueError
\* and leaves the four deletion fields as the first deletion set them.
C2_SecondSoftDeleteRaises ==
    [][\A e \in DOMAIN rows :
          (Returns("soft_delete") /\ last'.inst = e /\ is_soft_deleted(rows[e]))
          => (last'.raised = "ValueError" /\ rows' = rows)]_vars

\* C3: restore on an entity that is not soft-deleted raises ValueError and
\* leaves the four deletion fields unchanged; on a soft-deleted entity it sets
\* deleted_at, deleted_by and deletion_reason to null and is_deleted to false.
C3_RestoreContract ==
    [][\A e \in DOMAIN rows :
          (Returns("restore") /\ last'.inst = e)
          => IF is_soft_deleted(rows[e])
             THEN /\ last'.raised = ""
                  /\ rows' = [rows EXCEPT ![e] = ActiveRow]
             ELSE /\ last'.raised = "ValueError"
                  /\ rows' = rows]_vars

\* C4: soft_delete(actor, reason) of an active entity followed immediately by
\* restore() returns the four fields to (null, null, null, false), and the
\* entity can then be soft-deleted again without error.
C4_RoundTrip ==
    [][\A e \in DOMAIN rows :
          (/\ last.op = "soft_delete" /\ last.inst = e /\ last.raised = ""
           /\ Returns("restore") /\ last'.inst = e)
          => /\ last'.raised = ""
             /\ rows'[e] = ActiveRow
             /\ \A by \in Actors, reason \in Reasons :
                   (IF impl = PN
                    THEN soft_delete_pn(rows'[e], now, by, reason)
                    ELSE soft_delete_cb(rows'[e], now, by, reason))[2] = ""]_vars

\* C4 witness: the restore that followed a soft_delete with an actor and a
\* reason has returned, and the row reads as it did when it was created
C4_Witness ==
    /\ last.op = "restore"
    /\ last.raised = ""
    /\ pc = "returned"
    /\ rows[last.inst] = ActiveRow

\* C5: for every combination of field values, partially updated rows
\* included, is_soft_deleted equals (is_deleted and deleted_at is not null).
C5_IsSoftDeleted ==
    last.op = "is_soft_deleted"
    => last.flag = (rows[last.inst].is_deleted /\ rows[last.inst].deleted_at # None)

\* The set of a list's elements
Range(seq) == {seq[k] : k \in 1..Len(seq)}

\* The rows of last'.model whose ID is in last'.ids and that are active (deleted
\* = FALSE) or soft-deleted (deleted = TRUE) when the call starts
Addressed(deleted) ==
    {e \in DOMAIN rows : /\ e[1] = last'.model
                         /\ e[2] \in Range(last'.ids)
                         /\ rows[e].exists
                         /\ is_soft_deleted(rows[e]) = deleted}

\* C6: for every ID list (IDs of already-deleted rows, unknown IDs and repeated
\* IDs included) and every batch_size >= 1, bulk_soft_delete soft-deletes
\* exactly the rows that were active and whose ID is in the list, returns their
\* number, raises nothing, and leaves every other row, the already-deleted
\* ones included, as it was.
C6_BulkSoftDeleteExact ==
    [][Returns("bulk_soft_delete")
       => /\ last'.raised = ""
          /\ last'.ret = Cardinality(Addressed(FALSE))
          /\ \A e \in DOMAIN rows :
                IF e \in Addressed(FALSE)
                THEN rows'[e].exists /\ is_soft_deleted(rows'[e])
                ELSE rows'[e] = rows[e]]_vars

\* C6 witness: bulk_soft_delete of [1, 1] in batches of one has returned 1: the
\* first batch deleted row 1, the second found it deleted and left it alone
C6_Witness ==
    /\ pc = "returned"
    /\ last.op = "bulk_soft_delete"
    /\ last.ids = <<1, 1>>
    /\ last.batch_size = 1
    /\ last.stmts = 2
    /\ last.ret = 1
    /\ rows[<<last.model, 1>>].deleted_at = Some(now)
    /\ rows[<<last.model, 1>>].deleted_by = last.by

\* C7: bulk_soft_delete and bulk_restore with an empty ID list return 0 and
\* issue no statement and no commit; every row is unchanged.
C7_EmptyListNoOp ==
    [][((Returns("bulk_soft_delete") \/ Returns("bulk_restore"))
        /\ last'.ids = <<>>)
       => /\ last'.ret = 0
          /\ last'.raised = ""
          /\ last'.stmts = 0
          /\ last'.commits = 0
          /\ rows' = rows]_vars

\* C7 witness: bulk_restore([]) has returned while a soft-deleted row exists
C7_Witness ==
    /\ pc = "returned"
    /\ last.op = "bulk_restore"
    /\ last.ids = <<>>
    /\ \E e \in DOMAIN rows : e[1] = last.model /\ is_soft_deleted(rows[e])

\* C8: bulk_restore clears the four deletion fields of exactly the rows that
\* are soft-deleted and whose ID is in ids, returns their number, and leaves
\* active rows and rows outside ids unchanged.
C8_BulkRestoreExact ==
    [][Returns("bulk_restore")
       => /\ last'.raised = ""
          /\ last'.ret = Cardinality(Addressed(TRUE))
          /\ \A e \in DOMAIN rows :
                rows'[e] = IF e \in Addressed(TRUE) THEN ActiveRow ELSE rows[e]]_vars

\* C8 witness: bulk_restore([1]) has restored row 1 and returned 1; row 2,
\* outside ids, is still soft-deleted
C8_Witness ==
    /\ pc = "returned"
    /\ last.op = "bulk_restore"
    /\ last.ids = <<1>>
    /\ last.ret = 1
    /\ rows[<<last.model, 1>>] = ActiveRow
    /\ <<last.model, 2>> \in DOMAIN rows
    /\ is_soft_deleted(rows[<<last.model, 2>>])

\* C9: hard_delete_before removes only rows that are soft-deleted with
\* deleted_at strictly earlier than the cutoff; every active row and every
\* soft-deleted row with deleted_at >= cutoff is present and unchanged
\* afterwards, for every batch_size >= 1.
C9_HardDeleteOnlyOld ==
    [][Returns("hard_delete_before")
       => \A e \in DOMAIN rows :
             (/\ rows[e].exists
              /\ \/ ~ is_soft_deleted(rows[e])
                 \/ rows[e].deleted_at[1] >= last'.cutoff)
             => rows'[e] = rows[e]]_vars

\* C9 witness: hard_delete_before has removed a row while a row of the same
\* table, soft-deleted at the cutoff or later, is still there
C9_Witness ==
    /\ pc = "returned"
    /\ last.op = "hard_delete_before"
    /\ last.ret = 1
    /\ \E e \in DOMAIN rows :
          /\ e[1] = last.model
          /\ rows[e].exists
          /\ is_soft_deleted(rows[e])
          /\ rows[e].deleted_at[1] >= last.cutoff

\* The instances reachable from e along relationships
RECURSIVE ReachableFrom(_, _)
ReachableFrom(seen, frontier) ==
    IF frontier \subseteq seen
    THEN seen
    ELSE ReachableFrom(seen \cup frontier,
                       UNION {related[x] : x \in frontier})

\* e lies on a cycle of the relationship graph
OnCycle(e) == e \in ReachableFrom({}, related[e])

\* While the walk runs no class is counted more often than it has processed
\* keys, and every processed instance is soft-deleted
CountsBounded ==
    pc = "cascade"
    => /\ \A m \in DOMAIN deleted_counts :
             deleted_counts[m] <= Cardinality({e \in processed : e[1] = m})
       /\ \A e \in processed : is_soft_deleted(rows[e])

\* A step of the walk writes at most one row, one that was active and whose
\* key was not processed, and counts exactly that row
OncePerEntity ==
    pc' = "cascade"
    => LET written == {e \in DOMAIN rows : rows'[e] # rows[e]}
       IN /\ Cardinality(written) <= 1
          /\ \A e \in written : /\ ~ is_soft_deleted(rows[e])
                                 /\ e \notin processed
                                 /\ e \in processed'
          /\ \A m \in DOMAIN deleted_counts :
                deleted_counts'[m] =
                    deleted_counts[m] + Cardinality({e \in written : e[1] = m})

\* C10: cascade_soft_delete on a root whose relationship graph holds a cycle
\* back to it (direct or indirect) terminates, and each distinct entity, keyed
\* by class and id, is soft-deleted and counted at most once.
C10_CycleSafe ==
    /\ (pc = "cascade") ~> (pc = "returned")
    /\ []CountsBounded
    /\ [][OncePerEntity]_vars

\* C10 witness: the cascade from a root on a cycle through all three instances
\* has returned, having counted the author once and each book once
C10_Witness ==
    /\ pc = "returned"
    /\ last.op = "cascade_soft_delete"
    /\ last.raised = ""
    /\ OnCycle(last.inst)
    /\ related[<<"TestAuthor", 1>>] = {<<"TestBook", 1>>}
    /\ related[<<"TestBook", 1>>] = {<<"TestBook", 2>>}
    /\ related[<<"TestBook", 2>>] = {<<"TestAuthor", 1>>}
    /\ last.counts["TestAuthor"] = 1
    /\ last.counts["TestBook"] = 2
    /\ \A e \in DOMAIN rows : is_soft_deleted(rows[e])

\* C5 witness: is_soft_deleted was read as false on a row with is_deleted true
\* and deleted_at null
C5_Witness ==
    /\ last.op = "is_soft_deleted"
    /\ rows[last.inst].is_deleted
    /\ rows[last.inst].deleted_at = None
    /\ last.flag = FALSE

\* A call of cascade_soft_delete starts
CascadeStarts == pc = "idle" /\ pc' # "idle" /\ last'.op = "cascade_soft_delete"

\* C11: cascade_soft_delete with max_depth <= 0 raises the depth error before
\* anything else happens: no entity is soft-deleted, no field of the root
\* changes, nothing is committed.
C11_DepthErrorFirst ==
    [][(CascadeStarts /\ last'.max_depth <= 0)
       => /\ pc' = "returned"
          /\ last'.raised = "ValueError"
          /\ rows' = rows
          /\ last'.commits = 0
          /\ last'.counts = NoCounts]_vars

\* C11 witness: cascade_soft_delete(max_depth = 0) has raised on an active
\* root that has an active related instance
C11_Witness ==
    /\ pc = "returned"
    /\ last.op = "cascade_soft_delete"
    /\ last.max_depth = 0
    /\ last.raised = "ValueError"
    /\ rows[last.inst] = ActiveRow
    /\ \E x \in related[last.inst] : rows[x] = ActiveRow

\* The rows this cascade wrote: SpecCascade starts the call at now, later than
\* every earlier deletion
WrittenByCascade == {e \in DOMAIN rows : rows[e].deleted_at = Some(now)}

\* C12: when the depth budget reaches zero at an entity that still has active
\* related entities, the walker raises a depth-exceeded error; it never
\* returns normally with those related entities left active.  Stated on the
\* return: after a normal return no entity deleted by the call has an active
\* related entity.
C12_NoSilentTruncation ==
    (pc = "returned" /\ last.op = "cascade_soft_delete" /\ last.raised = "")
    => \A e \in WrittenByCascade :
          \A x \in related[e] : is_soft_deleted(rows[x])

\* C13: cascade_soft_delete returns, per class name, the number of instances
\* that went from active to soft-deleted during the call, written with the
\* caller's actor and reason; an active root whose active dependents are all
\* of one class and within depth gives {Root: 1, Dependent: n} with all n + 1
\* soft-deleted.  A row that is not as the earlier deletion left it was active
\* when the call started.
C13_CountsPerClass ==
    (pc = "returned" /\ last.op = "cascade_soft_delete" /\ last.raised = "")
    => /\ \A m \in DOMAIN last.counts :
             last.counts[m] = Cardinality({e \in WrittenByCascade : e[1] = m})
       /\ \A e \in WrittenByCascade :
             /\ rows[e].deleted_by = last.by
             /\ rows[e].deletion_reason = last.reason
             /\ rows[e].is_deleted
       /\ \A e \in DOMAIN rows :
             (rows[e].deleted_at # None /\ e \notin WrittenByCascade)
             => rows[e] = EarlierDeleted
       /\ LET root == last.inst
              deps == related[root]
          IN (/\ rows[root] # EarlierDeleted
              /\ last.max_depth >= 1
              /\ deps # {}
              /\ \A x \in deps : /\ x[1] # root[1]
                                  /\ rows[x] # EarlierDeleted
                                  /\ related[x] \subseteq {root})
             => /\ last.counts[root[1]] = 1
                /\ \A x \in deps : last.counts[x[1]] = Cardinality(deps)
                /\ \A e \in deps \cup {root} : is_soft_deleted(rows[e])

\* C13 witness: the cascade from an active author with two active books and
\* the back-references of the test models has returned
\* {TestAuthor: 1, TestBook: 2}
C13_Witness ==
    /\ pc = "returned"
    /\ last.op = "cascade_soft_delete"
    /\ last.inst = <<"TestAuthor", 1>>
    /\ last.by = Some("admin")
    /\ last.reason = Some("cleanup")
    /\ related[<<"TestAuthor", 1>>] = {<<"TestBook", 1>>, <<"TestBook", 2>>}
    /\ related[<<"TestBook", 1>>] = {<<"TestAuthor", 1>>}
    /\ related[<<"TestBook", 2>>] = {<<"TestAuthor", 1>>}
    /\ last.counts["TestAuthor"] = 1
    /\ last.counts["TestBook"] = 2
    /\ WrittenByCascade = DOMAIN rows

\* Both callers have returned and nothing is left uncommitted
AllCommitted ==
    \A s \in Callers :
       sessions[s].state = "done" /\ DOMAIN sessions[s].writes = {}

\* C14: when bulk_soft_delete calls on overlapping ID sets run concurrently,
\* no call raises; a row that is soft-deleted is never written again, so the
\* first writer's deleted_by and reason are the ones stored; and each call
\* returns the number of rows that carry its own deletion, so the returned
\* counts add up to the number of rows that became soft-deleted.
C14_FirstWriterWins ==
    /\ [](\A s \in Callers : sessions[s].raised = "")
    /\ [][\A e \in DOMAIN rows :
             is_soft_deleted(rows[e]) => rows'[e] = rows[e]]_vars
    /\ [](AllCommitted
          => \A s \in Callers :
                sessions[s].total =
                    Cardinality({e \in DOMAIN rows :
                                    /\ rows[e] # EarlierDeleted
                                    /\ rows[e].deleted_by = sessions[s].by}))

\* C15: bulk_soft_delete, bulk_restore and hard_delete_before called with an
\* entity type that lacks the soft-delete capability fail with an error
\* before any statement is issued, even when the ID list is empty; they never
\* return a count.
C15_FailsFastWithoutMixin ==
    [][((\/ Returns("bulk_soft_delete")
         \/ Returns("bulk_restore")
         \/ Returns("hard_delete_before"))
        /\ ~ SupportsSoftDelete(last'.model))
       => /\ last'.raised # ""
          /\ last'.stmts = 0
          /\ last'.commits = 0
          /\ rows' = rows]_vars

\* An argument that was not given: None or the empty string
Missing(x) == x = None \/ x = Some("")

\* C16: validate_operation raises when require_deleted_by is set and the actor
\* is missing, or when require_deletion_reason is set and the reason is
\* missing, and returns normally otherwise; with skip_validation set it never
\* raises, whatever the other flags and arguments are.
C16_ValidateOperation ==
    (pc = "returned" /\ last.op = "validate_operation")
    => LET c == soft_delete_config
       IN (last.raised # "")
          <=> /\ ~ c.skip_validation
              /\ \/ c.require_deleted_by /\ Missing(last.by)
                 \/ c.require_deletion_reason /\ Missing(last.reason)

\* C16 witness: with skip_validation and both requirements set,
\* validate_operation without actor and reason has returned normally
C16_Witness ==
    /\ pc = "returned"
    /\ last.op = "validate_operation"
    /\ soft_delete_config.skip_validation
    /\ soft_delete_config.require_deleted_by
    /\ soft_delete_config.require_deletion_reason
    /\ last.by = None
    /\ last.reason = None
    /\ last.raised = ""

\* Keyword arguments with a cleanup hour outside 0..23 or a timezone name
\* that is not recognised
Rejected(kw) ==
    \/ /\ kw.cleanup_schedule_hours # None
       /\ \E k \in 1..Len(kw.cleanup_schedule_hours[1]) :
             kw.cleanup_schedule_hours[1][k] \notin 0..23
    \/ /\ kw.timezone # None
       /\ kw.timezone[1] \notin PytzTimezones

\* C17: constructing a configuration with a cleanup hour outside 0..23 or an
\* unrecognised timezone raises a validation error and yields no object; so
\* does update_soft_delete_config, which leaves the installed global
\* configuration in place.
C17_RejectsBadPolicy ==
    [][((Returns("SoftDeleteConfig") \/ Returns("update_soft_delete_config"))
        /\ Rejected(last'.kwargs))
       => /\ last'.raised = "ValidationError"
          /\ last'.obj = None
          /\ soft_delete_config' = soft_delete_config]_vars

\* C17 witness: update_soft_delete_config(cleanup_schedule_hours = [0, 24])
\* has raised while a configuration changed by an earlier update is installed
C17_Witness ==
    /\ pc = "returned"
    /\ last.op = "update_soft_delete_config"
    /\ last.kwargs.cleanup_schedule_hours = Some(<<0, 24>>)
    /\ last.kwargs.timezone = None
    /\ last.raised = "ValidationError"
    /\ soft_delete_config.cleanup_schedule_hours = <<23>>
    /\ soft_delete_config.timezone = "Europe/Paris"

\* C18: check_connection never raises: a failing round trip gives connected =
\* false, status 'unhealthy' and the error text; a successful one gives
\* connected = true with status 'healthy' when the measured latency is below
\* 100 ms and 'slow' otherwise.
C18_CheckConnection ==
    (pc = "returned" /\ last.op = "check_connection")
    => /\ last.raised = ""
       /\ last.obj # None
       /\ LET result == last.obj[1]
          IN IF last.env.ok
             THEN /\ result.connected
                  /\ result.status =
                        IF last.env.ms < 100 THEN "healthy" ELSE "slow"
             ELSE /\ ~ result.connected
                  /\ result.status = "unhealthy"
                  /\ result.error = last.env.error

\* C18 witness: a round trip of exactly 100 ms was reported as slow
C18_Witness ==
    /\ pc = "returned"
    /\ last.op = "check_connection"
    /\ last.env.ok
    /\ last.env.ms = 100
    /\ last.obj[1].status = "slow"

\* Position k of the given classes is a soft-delete model whose counts were
\* read and show a deletion ratio above 50% or more than 10000 deleted rows
\* older than 90 days
InPoorHealth(k) ==
    LET t == last.env.tables[last.classes[k]]
    IN /\ ~ t.failed
       /\ \/ 2 * t.deleted > t.active + t.deleted
          \/ t.old > 10000

\* C19: in the report of get_health_report the healthy flag is false whenever
\* the connectivity check failed or at least one of the given entity types is
\* in poor health (deletion ratio above 50% or more than 10000 stale deleted
\* rows).
C19_UnhealthyReport ==
    (pc = "returned" /\ last.op = "get_health_report")
    => ((\/ ~ last.env.outcome.ok
         \/ \E k \in 1..Len(last.classes) :
               SupportsSoftDelete(last.classes[k]) /\ InPoorHealth(k))
        => /\ last.obj # None
           /\ last.obj[1].healthy = FALSE)

\* C19 witness: with a working connection, the report on a good TestAuthor
\* table and a TestBook table holding 10001 stale rows at a deletion ratio of
\* 50% is not healthy
C19_Witness ==
    /\ pc = "returned"
    /\ last.op = "get_health_report"
    /\ last.env.outcome.ok
    /\ last.classes = <<"TestAuthor", "TestBook">>
    /\ last.env.tables["TestAuthor"] =
          [failed |-> FALSE, active |-> 1, deleted |-> 0, old |-> 0]
    /\ last.env.tables["TestBook"] =
          [failed |-> FALSE, active |-> 10001, deleted |-> 10001,
           old |-> 10001]
    /\ last.obj[1].healthy = FALSE
    /\ last.obj[1].overall_health = "poor - issues detected"

\* The rows of the model of the call that are in the table
TableOf(rws, model) == {e \in DOMAIN rws : e[1] = model /\ rws[e].exists}

\* The call addresses k distinct IDs of active rows of a table whose n rows are
\* all active
DistinctActive(model, ids) ==
    /\ Cardinality(Range(ids)) = Len(ids)
    /\ \A i \in Range(ids) : <<model, i>> \in TableOf(rows, model)
    /\ \A e \in TableOf(rows, model) : ~ rows[e].is_deleted

\* C20: after bulk_soft_delete of k distinct active IDs out of n active rows
\* with reason r, the statistics of the table are active = n - k, deleted = k
\* and total = n, each of the k rows carries deletion_reason = r and the given
\* deleted_by; get_deletion_stats returns the statistics of the table, and
\* its total is always active + deleted.
C20_StatsAfterBulkDelete ==
    /\ [][(Returns("bulk_soft_delete")
           /\ DistinctActive(last'.model, last'.ids))
          => LET n == Cardinality(TableOf(rows, last'.model))
                 k == Len(last'.ids)
                 stats == get_deletion_stats(rows', last'.model)
             IN /\ last'.raised = ""
                /\ stats = [active |-> n - k, deleted |-> k, total |-> n]
                /\ \A i \in Range(last'.ids) :
                      /\ rows'[<<last'.model, i>>].is_deleted
                      /\ rows'[<<last'.model, i>>].deletion_reason
                            = last'.reason
                      /\ rows'[<<last'.model, i>>].deleted_by = last'.by]_vars
    /\ []((pc = "returned" /\ last.op = "get_deletion_stats")
          => /\ last.raised = ""
             /\ last.obj = Some(get_deletion_stats(rows, last.model))
             /\ last.obj[1].total
                   = last.obj[1].active + last.obj[1].deleted)

\* C20 witness: of two books, one deleted in bulk by admin for cleanup, the
\* statistics returned are one active, one deleted, two in total
C20_Witness ==
    /\ pc = "returned"
    /\ last.op = "get_deletion_stats"
    /\ last.model = "TestBook"
    /\ last.obj = Some([active |-> 1, deleted |-> 1, total |-> 2])
    /\ \E e \in TableOf(rows, "TestBook") :
          /\ rows[e].is_deleted
          /\ rows[e].deletion_reason = Some("cleanup")
          /\ rows[e].deleted_by = Some("admin")

\* The row is physically present and carries a deletion timestamp
Hidden(e) == rows[e].exists /\ rows[e].deleted_at # None

\* The rows a filtered read handed back
ReadResult ==
    IF last'.op = "get_multi_by_user" THEN last'.obj[1] ELSE Range(last'.obj)

\* C21: after CRUDBase.remove on a soft-deletable record the row is still
\* physically present with its deletion timestamp set; it stays so until it is
\* restored, and while it is so no filtered read (get, get_by_user,
\* get_multi_by_user) returns it.
C21_RemovedIsHidden ==
    /\ [][(Returns("remove") /\ SupportsSoftDelete(last'.model))
          => (rows'[last'.inst].exists
              /\ rows'[last'.inst].deleted_at # None)]_vars
    /\ [][\A e \in DOMAIN rows :
            (SupportsSoftDelete(e[1]) /\ Hidden(e)
             /\ ~ (Returns("crud_restore") /\ last'.inst = e))
            => (rows'[e].exists /\ rows'[e].deleted_at # None)]_vars
    /\ [][(Returns("get") \/ Returns("get_by_user")
           \/ Returns("get_multi_by_user"))
          => \A e \in DOMAIN rows :
                (SupportsSoftDelete(e[1]) /\ Hidden(e)) => e \notin ReadResult]_vars

\* C21 witness: alice has two contacts, the first one removed; her list of
\* contacts holds the second one only
C21_Witness ==
    /\ pc = "returned"
    /\ last.op = "get_multi_by_user"
    /\ last.by = Some("alice")
    /\ last.batch_size = 100
    /\ rows[<<"Contact", 1>>].exists
    /\ rows[<<"Contact", 1>>].user_id = "alice"
    /\ rows[<<"Contact", 1>>].deleted_at # None
    /\ rows[<<"Contact", 2>>].exists
    /\ rows[<<"Contact", 2>>].user_id = "alice"
    /\ last.obj = Some({<<"Contact", 2>>})

\* The position of a step in the flow
StepIndex(step) == CHOOSE i \in 1..Len(OnboardingSteps) : OnboardingSteps[i] = step

\* The user's step when a request arrives: a user without a row starts at
\* WELCOME
StepOf(user_id) ==
    IF onboarding[user_id].exists THEN onboarding[user_id].current_step
    ELSE "welcome"

\* The user owns a row of the model that is present and not soft-deleted
HasActive(model, user_id) ==
    \E e \in DOMAIN rows : /\ e[1] = model
                            /\ rows[e].exists
                            /\ rows[e].user_id = user_id
                            /\ rows[e].deleted_at = None

\* The request finds the prerequisite of the user's step missing
PrerequisiteMissing(user_id) ==
    \/ StepOf(user_id) = "contact_added" /\ ~ HasActive("Contact", user_id)
    \/ StepOf(user_id) = "interaction_logged"
          /\ ~ HasActive("Interaction", user_id)

C30_OnboardingInvariant ==
    /\ [](\A u \in Users :
            onboarding[u].exists
            => (onboarding[u].is_complete
                <=> onboarding[u].current_step = "completed"))
    /\ [][\A u \in Users :
            onboarding[u].exists
            => /\ onboarding'[u].exists
               /\ StepIndex(onboarding'[u].current_step)
                     >= StepIndex(onboarding[u].current_step)]_vars
    /\ [][(Returns("advance_onboarding_step")
           /\ StepOf(last'.by[1]) = "completed")
          => /\ last'.raised = ""
             /\ onboarding'[last'.by[1]].current_step = "completed"
             /\ onboarding'[last'.by[1]].is_complete
             /\ last'.obj = Some(onboarding'[last'.by[1]])]_vars

\* C30 witness: alice has completed the flow and her POST /onboarding/next
\* was answered with the completed record, while bob is still at WELCOME
C30_Witness ==
    /\ pc = "returned"
    /\ last.op = "advance_onboarding_step"
    /\ last.by = Some("alice")
    /\ last.raised = ""
    /\ onboarding["alice"]
          = [exists |-> TRUE, current_step |-> "completed",
             is_complete |-> TRUE]
    /\ onboarding["bob"] = NewOnboarding

\* The rows of the table that match the purge: soft-deleted with deleted_at
\* earlier than the cutoff
Stale(cutoff) ==
    {e \in DOMAIN rows : /\ rows[e].exists
                         /\ rows[e].is_deleted
                         /\ rows[e].deleted_at # None
                         /\ rows[e].deleted_at[1] < cutoff}

\* The rows that are in the table now and not after the step
Removed == {e \in DOMAIN rows : rows[e].exists /\ ~ rows'[e].exists}

\* C23: for every finite table and every batch_size >= 1, hard_delete_before
\* terminates; when it returns, no soft-deleted row with deleted_at earlier
\* than the cutoff remains (nothing else writing), and the returned total is
\* the number of rows the call physically removed: it starts at 0 and every
\* step adds the number of rows that step removed.
C23_PurgeTerminates ==
    /\ (sessions["A"].state = "selecting") ~> (sessions["A"].state = "done")
    /\ [](sessions["A"].state = "done"
          => /\ sessions["A"].raised = ""
             /\ Stale(sessions["A"].cutoff) = {})
    /\ [][/\ sessions["A"].state = "idle"
             => sessions'["A"].total = 0
          /\ sessions["A"].state # "idle"
             => sessions'["A"].total
                  = sessions["A"].total + Cardinality(Removed)]_vars

\* C23 witness: with batch_size 1 the call has removed two rows in two rounds
\* and returned, an active row being left
C23_Witness ==
    /\ sessions["A"].state = "done"
    /\ sessions["A"].op = "hard_delete_before"
    /\ sessions["A"].batch_size = 1
    /\ sessions["A"].total = 2
    /\ Cardinality({e \in DOMAIN rows : ~ rows[e].exists}) = 2
    /\ \E e \in DOMAIN rows : rows[e] = ActiveRow

\* bulk_soft_delete of session A fails in this step
BulkDeleteFails ==
    /\ sessions["A"].op = "bulk_soft_delete"
    /\ sessions["A"].raised = ""
    /\ sessions'["A"].raised # ""

\* C24 as stated: a failure while bulk_soft_delete processes a later batch
\* leaves the rows of the earlier batches committed as soft-deleted.
C24_PartialBulkDelete ==
    [][BulkDeleteFails
       => \A e \in DOMAIN sessions["A"].writes : rows'[e].is_deleted]_vars

\* C24 as amended: bulk_soft_delete executes one UPDATE per batch in a single
\* transaction and commits once after the last batch: the table changes only
\* when the call returns, and a failure while a later batch is processed
\* leaves the rows of the earlier batches as they were.  hard_delete_before is
\* the operation that commits after each batch: when it fails in a later
\* round, the rows of the earlier rounds are removed for good.
C24_FailureMidRun ==
    /\ [][BulkDeleteFails
          => /\ rows' = rows
             /\ sessions'["A"].writes = <<>>
             /\ \A e \in DOMAIN sessions["A"].writes : ~ rows'[e].is_deleted]_vars
    /\ [][(sessions["A"].op = "bulk_soft_delete" /\ rows' # rows)
          => (sessions'["A"].state = "done" /\ sessions'["A"].raised = "")]_vars
    /\ []((sessions["A"].op = "hard_delete_before"
           /\ sessions["A"].raised # "")
          => sessions["A"].total
               = Cardinality({e \in DOMAIN rows : ~ rows[e].exists}))

\* C24 witness: bulk_soft_delete of [1, 2] in batches of one failed in its
\* second batch, and row 1 is still active
C24_Witness ==
    /\ sessions["A"].op = "bulk_soft_delete"
    /\ sessions["A"].ids = <<1, 2>>
    /\ sessions["A"].batch_size = 1
    /\ sessions["A"].i = 1
    /\ sessions["A"].total = 1
    /\ sessions["A"].raised = "OperationalError"
    /\ rows[<<"TestUser", 1>>] = ActiveRow

\* C26: hard_delete_before never physically removes a row that is active at
\* the moment of removal: a row whose restore committed between the selection
\* of the batch and its DELETE survives.
C26_RestoredRowSurvives ==
    [][\A e \in Removed : rows[e].is_deleted]_vars

\* The entity the service call names, when the table holds it
Named == <<last'.model, last'.ids[1]>>

\* C25: BaseService.soft_delete(id) returns True only when an active entity
\* with that id existed and is soft-deleted afterwards, and returns False
\* without changing anything when the id is unknown or the entity is already
\* soft-deleted; BaseService.restore(id) returns True only when the entity was
\* soft-deleted and is active afterwards, and returns False without changing
\* anything when the id is unknown or the entity is not deleted.  Neither
\* surfaces the mixin's state error.
C25_ServiceReportsOutcome ==
    /\ [][Returns("service_soft_delete")
          => LET known == Named \in DOMAIN rows /\ rows[Named].exists
             IN /\ last'.raised = ""
                /\ last'.flag <=> (known /\ ~ is_soft_deleted(rows[Named]))
                /\ last'.flag => is_soft_deleted(rows'[Named])
                /\ ~ last'.flag => rows' = rows]_vars
    /\ [][Returns("service_restore")
          => LET known == Named \in DOMAIN rows /\ rows[Named].exists
             IN /\ last'.raised = ""
                /\ last'.flag <=> (known /\ is_soft_deleted(rows[Named]))
                /\ last'.flag => rows'[Named] = ActiveRow
                /\ ~ last'.flag => rows' = rows]_vars

\* A step of a running cascade_soft_delete, its first one included
CascadeRuns == pc' = "cascade"

\* C29: cascade_soft_delete changes nothing outside the set of entities it
\* counts: an entity that was soft-deleted before keeps its deleted_at,
\* deleted_by and deletion_reason and is not counted (each step counts, per
\* class, exactly the rows it writes), and every entity not reachable from the
\* root through relationships keeps all four deletion fields.
C29_CascadeFrame ==
    /\ [][CascadeRuns
          => \A e \in DOMAIN rows :
                (\/ is_soft_deleted(rows[e])
                 \/ e \notin ReachableFrom({}, {last'.inst}))
                => rows'[e] = rows[e]]_vars
    /\ [][CascadeRuns
          => \A m \in DOMAIN deleted_counts :
                deleted_counts'[m]
                  = (IF pc = "idle" THEN 0 ELSE deleted_counts[m])
                    + Cardinality({e \in DOMAIN rows :
                                      e[1] = m /\ rows'[e] # rows[e]})]_vars
    /\ [][(pc = "cascade" /\ pc' = "returned")
          => (rows' = rows /\ last'.counts = deleted_counts)]_vars

\* C29 witness: the cascade from the author has returned; its first book,
\* soft-deleted earlier, is as it was and was not counted, its second book was
\* deleted by the call
C29_Witness ==
    /\ pc = "returned"
    /\ last.op = "cascade_soft_delete"
    /\ last.raised = ""
    /\ last.inst = <<"TestAuthor", 1>>
    /\ related[<<"TestAuthor", 1>>] = {<<"TestBook", 1>>, <<"TestBook", 2>>}
    /\ rows[<<"TestBook", 1>>] = EarlierDeleted
    /\ rows[<<"TestBook", 2>>].deleted_at = Some(now)
    /\ last.counts["TestBook"] = 1
    /\ last.counts["TestAuthor"] = 1

\* The instances at most k relationship hops from the frontier along paths
\* whose inner instances were active when the cascade started
RECURSIVE WithinHops(_, _)
WithinHops(frontier, k) ==
    IF k <= 0 \/ frontier = {}
    THEN frontier
    ELSE frontier
         \cup WithinHops(UNION {related[x] : x \in {y \in frontier :
                                                     rows[y] # EarlierDeleted}},
                         k - 1)

\* C27: after cascade_soft_delete(root, max_depth = d) returns without error,
\* every instance reachable from the root along at most d relationship hops
\* through active instances is soft-deleted, whatever the order in which the
\* relationships were traversed.
C27_DeletesWithinDepth ==
    (pc = "returned" /\ last.op = "cascade_soft_delete" /\ last.raised = "")
    => \A e \in WithinHops({last.inst}, last.max_depth) :
          is_soft_deleted(rows[e])

\* Two soft_delete requests that both loaded the same active entity and
\* have both finished
BothFinished(s, o) ==
    /\ s # o
    /\ sessions[s].state = "done" /\ sessions[o].state = "done"
    /\ sessions[s].raised = "" /\ sessions[o].raised = ""
    /\ DOMAIN sessions[s].loaded # {}
    /\ DOMAIN sessions[s].loaded = DOMAIN sessions[o].loaded

\* C28: when two BaseService.soft_delete requests for the same active entity
\* interleave, each reading the entity and then writing, exactly one of them
\* reports success and the stored deleted_at, deleted_by and deletion_reason
\* are those of that request; no write changes a row that is soft-deleted.
C28_FirstWriterWins ==
    /\ [](\A s, o \in DOMAIN sessions :
             BothFinished(s, o)
             => /\ sessions[s].flag # sessions[o].flag
                /\ \A w \in {s, o} :
                      sessions[w].flag
                      => \A e \in DOMAIN sessions[w].loaded :
                            rows[e] = sessions[w].loaded[e])
    /\ [][\A e \in DOMAIN rows :
             is_soft_deleted(rows[e]) => rows'[e] = rows[e]]_vars

====
